---- MODULE Spec2Model ----
(***************************************************************************)
(* A model of APBS's solvent-accessibility engine (class Vacc,             *)
(* src/src/generic/vacc.c): the atom hash grid built by Vacc_ctor2 and     *)
(* Vacc_ctor2Focus, the quadrature sphere of Vacc_sphere, and the          *)
(* accessibility queries Vacc_vdwAcc, Vacc_ivdwAcc / ivdwAccExclus,        *)
(* Vacc_molAcc, Vacc_fastMolAcc, Vacc_splineAccAtom and Vacc_splineAcc.    *)
(*                                                                         *)
(* Numbers.  A C double that holds a length is an integer number of        *)
(* hundredths of an Angstrom (1.0 A is 100).  The grid spacing and the     *)
(* grid's lower corner are kept as exact fractions: the factors 2.84 and   *)
(* 1.42 are 284/100 and 142/100, and the division by (nx - 1) is carried   *)
(* in the denominator, so floor, ceil and the (int) cast are exact.  The   *)
(* square root is rounded to the nearest hundredth.  A double that holds   *)
(* a value of the characteristic function is a decimal floating-point      *)
(* number with four significant digits, products being truncated.          *)
(* A unit vector of the quadrature sphere has its components in            *)
(* ten-thousandths.                                                        *)
(***************************************************************************)
EXTENDS Integers, Sequences, FiniteSets, TLC

VARIABLES
  alist,   \* the atom list (Valist) the engine borrows: a sequence of atoms
  thee,    \* the Vacc object
  phase,   \* "init", "built", "ctor_failed", "undefined" or "aborted"
  call,    \* the last call made on the engine, with what it returned
  ub,      \* TRUE once the code has read or written outside an allocation
  thread,  \* the calls in progress when several threads share the object
  nosh,    \* the NOsh object of the input parser
  parse    \* the call of NOsh_parse in progress: its position and locals

vars == <<alist, thee, phase, call, ub, thread, nosh, parse>>

(***************************************************************************)
(* Arithmetic helpers                                                      *)
(***************************************************************************)
VMIN2(a, b) == IF a < b THEN a ELSE b
VMAX2(a, b) == IF a > b THEN a ELSE b
VSQR(a) == a * a

\* floor(a / b) and ceil(a / b) for b > 0
Floor(a, b) == a \div b
Ceil(a, b) == -((-a) \div b)
\* the C cast (int)(a / b) for b > 0: truncation toward zero
IntCast(a, b) == IF a >= 0 THEN a \div b ELSE -((-a) \div b)
\* a / b rounded to the nearest integer, b > 0
RoundDiv(a, b) == (2 * a + b) \div (2 * b)

RECURSIVE SqrtFloor(_, _, _)
SqrtFloor(v, lo, hi) ==
  IF lo >= hi THEN lo
  ELSE LET mid == (lo + hi + 1) \div 2
       IN IF mid * mid <= v THEN SqrtFloor(v, mid, hi) ELSE SqrtFloor(v, lo, mid - 1)

\* sqrt of a squared length, rounded to the nearest hundredth
VSQRT(v) ==
  LET f == SqrtFloor(v, 0, 40000)
  IN IF v - f * f > f THEN f + 1 ELSE f

(***************************************************************************)
(* Inputs: atoms, grid configurations, query points                        *)
(***************************************************************************)
\* the largest number of atoms of an atom list that is enumerated atom by atom
MaxAtoms == 2
\* the size of the one crowded atom list: more atoms than the 27 cells of
\* the smallest grid
CrowdSize == 28

\* the atoms the atom lists are made of: two atoms at the same place with the
\* same radius, a neighbour, an atom of radius exactly 1.0 and an atom of
\* radius 0
AtomPool == <<
  [position |-> <<0, 0, 0>>,     radius |-> 200],
  [position |-> <<0, 0, 0>>,     radius |-> 200],
  [position |-> <<400, 0, 0>>,   radius |-> 150],
  [position |-> <<0, 300, 400>>, radius |-> 100],
  [position |-> <<100, 0, 0>>,   radius |-> 0] >>

\* the atom lists: the sub-lists of the pool of up to MaxAtoms atoms, in pool
\* order; and the crowded list, the pool repeated up to CrowdSize atoms
PoolPicks(k) ==
  { s \in [1..k -> 1..Len(AtomPool)] : \A i \in 1..k : \A j \in 1..k : i < j => s[i] < s[j] }
Crowd == [ i \in 1..CrowdSize |-> AtomPool[((i - 1) % Len(AtomPool)) + 1] ]
AtomLists ==
  { [ i \in 1..Len(s) |-> AtomPool[s[i]] ] : s \in UNION { PoolPicks(k) : k \in 1..MaxAtoms } }

\* grid dimensions (nx, ny, nz) a caller asks for
DimChoices == { <<3, 3, 3>>, <<4, 3, 5>>, <<3, 2, 3>> }
\* maximum probe radii a caller asks for
MaxRadiusChoices == { 0, 200 }
\* numbers of quadrature points a caller asks for
NSphereChoices == { 2, 5 }
\* focus boxes (x_min, y_min, z_min, x_max, y_max, z_max)
FocusBoxes == { [lo |-> <<300, -300, -300>>, hi |-> <<600, 300, 300>>] }

(***************************************************************************)
(* Vacc_sphere                                                             *)
(***************************************************************************)
\* 10000 * sin(d degrees), for the angles the rings of up to 6 latitudes use
SinTable(d) ==
  CASE d = 0 -> 0      [] d = 18 -> 3090  [] d = 30 -> 5000
    [] d = 36 -> 5878  [] d = 45 -> 7071  [] d = 54 -> 8090
    [] d = 60 -> 8660  [] d = 72 -> 9511  [] d = 90 -> 10000

VSIN(d) ==
  LET r == d % 360
  IN IF r <= 90 THEN SinTable(r)
     ELSE IF r <= 180 THEN SinTable(180 - r)
     ELSE IF r <= 270 THEN -SinTable(r - 180)
     ELSE -SinTable(360 - r)

VCOS(d) == VSIN(d + 90)

\* ntheta = VRINT(VSQRT(Vunit_pi * npts / 4.0)), with pi as 355/113:
\* the k with (2k - 1)^2 <= pi * npts < (2k + 1)^2
SphereNTheta(npts) ==
  CHOOSE k \in 0..(npts + 1) :
    /\ 113 * (2 * k - 1) * (2 * k - 1) <= 355 * npts \/ k = 0
    /\ 355 * npts < 113 * (2 * k + 1) * (2 * k + 1)

\* nphi = VRINT(sintheta * nphimax) on ring itheta
SphereNPhi(ntheta, itheta) ==
  (VSIN((180 * itheta) \div ntheta) * 2 * ntheta + 5000) \div 10000

\* the fill pass writing one point on a ring whose nphi is 0
SphereRing_Pole(ntheta, itheta) ==
  LET theta == (180 * itheta) \div ntheta
      nphi == VMAX2(SphereNPhi(ntheta, itheta), 1)
  IN [ iphi1 \in 1..nphi |->
         LET phi == (360 * (iphi1 - 1)) \div nphi
         IN << RoundDiv(VCOS(phi) * VSIN(theta), 10000),
               RoundDiv(VSIN(phi) * VSIN(theta), 10000),
               VCOS(theta) >> ]

\* the points of ring itheta, in the order of iphi
SphereRing(ntheta, itheta) ==
  LET theta == (180 * itheta) \div ntheta
      nphi == SphereNPhi(ntheta, itheta)
  IN [ iphi1 \in 1..nphi |->
         LET phi == (360 * (iphi1 - 1)) \div nphi
         IN << RoundDiv(VCOS(phi) * VSIN(theta), 10000),
               RoundDiv(VSIN(phi) * VSIN(theta), 10000),
               VCOS(theta) >> ]

RECURSIVE SphereFill(_, _)
SphereFill(ntheta, itheta) ==
  IF itheta >= ntheta THEN << >>
  ELSE SphereRing(ntheta, itheta) \o SphereFill(ntheta, itheta + 1)

\* the point sequence Vacc_sphere returns; its length is the actual count
Vacc_sphere(npts) ==
  LET ntheta == SphereNTheta(npts)
  IN IF ntheta = 0 THEN << >> ELSE SphereFill(ntheta, 0)

(***************************************************************************)
(* Vacc_ctor2 and Vacc_ctor2Focus                                          *)
(***************************************************************************)
\* the factors 2.84 and 1.42 of the grid's extent and margin, and their
\* denominator
GridExtentFactor == 284
GridMarginFactor == 142
GridDen == 100

\* atom i of the list al, i counting from 0 as in the code
Valist_getAtom(al, i) == al[i + 1]
Valist_getNumberAtoms(al) == Len(al)

RECURSIVE FindRmax(_, _, _)
FindRmax(al, i, rmax) ==
  IF i >= Valist_getNumberAtoms(al) THEN rmax
  ELSE FindRmax(al, i + 1,
         IF Valist_getAtom(al, i).radius > rmax THEN Valist_getAtom(al, i).radius ELSE rmax)

\* the extent of the atom centres along axis k (x_min .. x_max)
RECURSIVE FindMin(_, _, _)
FindMin(al, k, i) ==
  LET x == Valist_getAtom(al, i).position[k]
  IN IF i + 1 >= Valist_getNumberAtoms(al) THEN x ELSE VMIN2(x, FindMin(al, k, i + 1))
RECURSIVE FindMax(_, _, _)
FindMax(al, k, i) ==
  LET x == Valist_getAtom(al, i).position[k]
  IN IF i + 1 >= Valist_getNumberAtoms(al) THEN x ELSE VMAX2(x, FindMax(al, k, i + 1))
AtomExtent(al) ==
  [lo |-> [k \in 1..3 |-> FindMin(al, k, 0)], hi |-> [k \in 1..3 |-> FindMax(al, k, 0)]]

\* the grid geometry with the lower corner on the extent of the centres, not
\* moved out by 1.42 * (rmax + max_radius)
GridSetup_NoMargin(al, max_radius, dims, nsphere, box) ==
  LET rmax == FindRmax(al, 0, -100)
      s == rmax + max_radius
      h(k) == GridDen * (box.hi[k] - box.lo[k]) + GridExtentFactor * s
  IN [ nx |-> dims[1], ny |-> dims[2], nz |-> dims[3],
       n |-> dims[1] * dims[2] * dims[3],
       nsphere |-> Len(Vacc_sphere(nsphere)),
       max_radius |-> max_radius,
       sphere |-> Vacc_sphere(nsphere),
       hx |-> h(1), hy |-> h(2), hzed |-> h(3),
       grid_lower_corner |-> [k \in 1..3 |-> GridDen * box.lo[k]] ]

\* The grid geometry.  hx, hy, hzed hold the numerator of the spacing, whose
\* denominator is GridDen * (dim - 1); grid_lower_corner holds numerators
\* over GridDen.
GridSetup(al, max_radius, dims, nsphere, box) ==
  LET rmax == FindRmax(al, 0, -100)
      s == rmax + max_radius
      h(k) == GridDen * (box.hi[k] - box.lo[k]) + GridExtentFactor * s
  IN [ nx |-> dims[1], ny |-> dims[2], nz |-> dims[3],
       n |-> dims[1] * dims[2] * dims[3],
       nsphere |-> Len(Vacc_sphere(nsphere)),
       max_radius |-> max_radius,
       sphere |-> Vacc_sphere(nsphere),
       hx |-> h(1), hy |-> h(2), hzed |-> h(3),
       grid_lower_corner |-> [k \in 1..3 |-> GridDen * box.lo[k] - GridMarginFactor * s] ]

Dim(t, k) == IF k = 1 THEN t.nx ELSE IF k = 2 THEN t.ny ELSE t.nz
Spacing(t, k) == IF k = 1 THEN t.hx ELSE IF k = 2 THEN t.hy ELSE t.hzed

\* AtomSpan with the atom's own radius only: max_radius left out of rtot
AtomSpan_NoProbe(t, atom, k) ==
  LET x == GridDen * atom.position[k] - t.grid_lower_corner[k]
      rtot == GridDen * atom.radius
      i_max == VMIN2(Ceil((x + rtot) * (Dim(t, k) - 1), Spacing(t, k)), Dim(t, k) - 1)
      i_min == VMAX2(Floor((x - rtot) * (Dim(t, k) - 1), Spacing(t, k)), 0)
  IN [min |-> i_min, max |-> i_max]

\* AtomSpan with i_min rounded up instead of down
AtomSpan_CeilMin(t, atom, k) ==
  LET x == GridDen * atom.position[k] - t.grid_lower_corner[k]
      rtot == GridDen * (atom.radius + t.max_radius)
      i_max == VMIN2(Ceil((x + rtot) * (Dim(t, k) - 1), Spacing(t, k)), Dim(t, k) - 1)
      i_min == VMAX2(Ceil((x - rtot) * (Dim(t, k) - 1), Spacing(t, k)), 0)
  IN [min |-> i_min, max |-> i_max]

\* the cells i_min .. i_max an atom inflated by max_radius spans on axis k
AtomSpan(t, atom, k) ==
  LET x == GridDen * atom.position[k] - t.grid_lower_corner[k]
      rtot == GridDen * (atom.radius + t.max_radius)
      i_max == VMIN2(Ceil((x + rtot) * (Dim(t, k) - 1), Spacing(t, k)), Dim(t, k) - 1)
      i_min == VMAX2(Floor((x - rtot) * (Dim(t, k) - 1), Spacing(t, k)), 0)
  IN [min |-> i_min, max |-> i_max]

\* the natural array coordinate of cell (ii, jj, kk)
CellIndex(t, ii, jj, kk) == t.nz * t.ny * ii + t.nz * jj + kk

\* the three nested loops of atom `atom` visit cell ui
Visits(t, atom, ui) ==
  LET ii == ui \div (t.nz * t.ny)
      jj == (ui \div t.nz) % t.ny
      kk == ui % t.nz
      sx == AtomSpan(t, atom, 1)
      sy == AtomSpan(t, atom, 2)
      sz == AtomSpan(t, atom, 3)
  IN /\ sx.min <= ii /\ ii <= sx.max
     /\ sy.min <= jj /\ jj <= sy.max
     /\ sz.min <= kk /\ kk <= sz.max
     /\ ui = CellIndex(t, ii, jj, kk)

\* the atoms whose loops visit cell ui
Visitors(t, al, ui) ==
  { i \in 0..(Valist_getNumberAtoms(al) - 1) : Visits(t, Valist_getAtom(al, i), ui) }

\* a first pass that counts one atom too many in every visited cell
CountPass_Extra(t, al, ui) ==
  IF Visitors(t, al, ui) = {} THEN 0 ELSE Cardinality(Visitors(t, al, ui)) + 1

\* first pass, as seen from cell ui: natoms[ui] once every atom has been
\* counted (one increment per visiting atom)
CountPass(t, al, ui) == Cardinality(Visitors(t, al, ui))

\* the bucket of a cell as allocated: `counted` slots, nothing written yet (-1)
AllocBucket(counted) == [slot \in 1..counted |-> -1]

\* second pass, as seen from cell ui: natoms[ui] restarts at 0 and atoms are
\* taken in list order, so atom i is written to the slot numbered by the
\* visiting atoms before it.  The result holds natoms[ui], atomIDs[ui] and
\* whether a write fell outside the bucket.
FillPass(t, al, ui, bucket) ==
  LET v == Visitors(t, al, ui)
      slotOf == [i \in v |-> Cardinality({ j \in v : j < i })]
  IN [ natoms |-> Cardinality(v),
       atomIDs |-> [slot \in 1..Len(bucket) |->
                      IF \E i \in v : slotOf[i] = slot - 1
                      THEN CHOOSE i \in v : slotOf[i] = slot - 1
                      ELSE bucket[slot]],
       overrun |-> \E i \in v : slotOf[i] >= Len(bucket) ]

\* the object Vacc_ctor2 / Vacc_ctor2Focus leave behind when they return 1
BuildVacc(al, max_radius, dims, nsphere, box) ==
  LET t == GridSetup(al, max_radius, dims, nsphere, box)
      cells == 0..(t.n - 1)
      filled == [ui \in cells |->
                   FillPass(t, al, ui, AllocBucket(CountPass(t, al, ui)))]
  IN [ vacc |-> [ nx |-> t.nx, ny |-> t.ny, nz |-> t.nz, n |-> t.n,
                  nsphere |-> t.nsphere, max_radius |-> t.max_radius,
                  sphere |-> t.sphere, hx |-> t.hx, hy |-> t.hy, hzed |-> t.hzed,
                  grid_lower_corner |-> t.grid_lower_corner,
                  natoms |-> [ui \in cells |-> filled[ui].natoms],
                  atomIDs |-> [ui \in cells |-> filled[ui].atomIDs],
                  atomFlags |-> [ui \in cells |-> 0],
                  area |-> [i \in 0..(Valist_getNumberAtoms(al) - 1) |-> 0] ],
       overrun |-> \E ui \in cells : filled[ui].overrun ]

\* what the object holds when the constructor returns 0
FailedVacc(dims) ==
  [nx |-> dims[1], ny |-> dims[2], nz |-> dims[3], n |-> dims[1] * dims[2] * dims[3]]

NoVacc == [nx |-> 0, ny |-> 0, nz |-> 0, n |-> 0]
NoCall == [op |-> "none"]
\* no NOsh object yet, and no parse in progress
NoSection == [section |-> "none", rc |-> 0, toks |-> <<>>, before |-> 0,
              nprint |-> 0, narg |-> 0]
NoNOsh == [made |-> FALSE, parsed |-> 0, ncalc |-> 0, nmol |-> 0,
           ncharge |-> 0, ndiel |-> 0, nkappa |-> 0, nprint |-> 0,
           nelec |-> 0, printnarg |-> <<>>, elec2calc |-> <<>>,
           outside |-> {}]
NoParse == [pc |-> "idle", ret |-> 0, ntok |-> 0, tok |-> "",
            kind |-> "", left |-> 0, idx |-> 0, expect |-> 0,
            toks |-> <<>>, last |-> NoSection]
\* no call in progress in any thread
Idle == [op |-> "none"]
\* the two threads that share one object
Threads == { 1, 2 }
NoThreads == [t \in Threads |-> Idle]

\* the constructor refusing only dimensions below 2
Construct_Min2(max_radius, dims, nsphere, box) ==
  /\ phase = "init"
  /\ call' = NoCall
  /\ UNCHANGED <<nosh, parse, thread, alist>>
  /\ IF (dims[1] < 2) \/ (dims[2] < 2) \/ (dims[3] < 2)
     THEN /\ thee' = FailedVacc(dims)
          /\ phase' = "ctor_failed"
          /\ ub' = ub
     ELSE LET t == GridSetup(alist, max_radius, dims, nsphere, box)
          IN IF t.hx <= 0 \/ t.hy <= 0 \/ t.hzed <= 0
             THEN /\ thee' = FailedVacc(dims)
                  /\ phase' = "undefined"
                  /\ ub' = ub
             ELSE LET b == BuildVacc(alist, max_radius, dims, nsphere, box)
                  IN /\ thee' = b.vacc
                     /\ phase' = "built"
                     /\ ub' = (ub \/ b.overrun)

\* the constructor proper, for the bounding box `box`
Construct(max_radius, dims, nsphere, box) ==
  /\ phase = "init"
  /\ call' = NoCall
  /\ UNCHANGED <<nosh, parse, thread, alist>>
  /\ IF (dims[1] < 3) \/ (dims[2] < 3) \/ (dims[3] < 3)
     THEN /\ thee' = FailedVacc(dims)
          /\ phase' = "ctor_failed"
          /\ ub' = ub
     ELSE LET t == GridSetup(alist, max_radius, dims, nsphere, box)
          IN IF t.hx <= 0 \/ t.hy <= 0 \/ t.hzed <= 0
             THEN \* a spacing of 0: the divisions by it are not followed
                  /\ thee' = FailedVacc(dims)
                  /\ phase' = "undefined"
                  /\ ub' = ub
             ELSE LET b == BuildVacc(alist, max_radius, dims, nsphere, box)
                  IN /\ thee' = b.vacc
                     /\ phase' = "built"
                     /\ ub' = (ub \/ b.overrun)

Vacc_ctor2 ==
  \E max_radius \in MaxRadiusChoices, dims \in DimChoices, nsphere \in NSphereChoices :
    Construct(max_radius, dims, nsphere, AtomExtent(alist))

Vacc_ctor2Focus ==
  \E max_radius \in MaxRadiusChoices, dims \in DimChoices, nsphere \in NSphereChoices,
     box \in FocusBoxes :
    Construct(max_radius, dims, nsphere, box)

(***************************************************************************)
(* The accessibility queries                                               *)
(***************************************************************************)
\* what a function "returns" when a VASSERT in it fails: the process aborts
Aborted == -1

\* (int)((center[k] - grid_lower_corner[k]) / h): the grid-based coordinate
GridCoord(center, k) ==
  IntCast((GridDen * center[k] - thee.grid_lower_corner[k]) * (Dim(thee, k) - 1),
          Spacing(thee, k))

\* the check that the point is on the grid
OnGrid(center) ==
  ~( (GridCoord(center, 1) < 0) \/ (GridCoord(center, 1) >= thee.nx)
     \/ (GridCoord(center, 2) < 0) \/ (GridCoord(center, 2) >= thee.ny)
     \/ (GridCoord(center, 3) < 0) \/ (GridCoord(center, 3) >= thee.nz) )

\* ui, the natural array coordinate of the point's cell
PointCell(center) ==
  CellIndex(thee, GridCoord(center, 1), GridCoord(center, 2), GridCoord(center, 3))

\* the squared distance of two points
Dist2(apos, center) ==
  VSQR(apos[1] - center[1]) + VSQR(apos[2] - center[2]) + VSQR(apos[3] - center[3])

\* vdwAccLoop with <= in place of <
RECURSIVE vdwAccLoop_Leq(_, _, _)
vdwAccLoop_Leq(center, ui, iatom) ==
  IF iatom >= thee.natoms[ui] THEN 1
  ELSE LET atom == Valist_getAtom(alist, thee.atomIDs[ui][iatom + 1])
           dist == Dist2(atom.position, center)
       IN IF dist <= VSQR(atom.radius) THEN 0 ELSE vdwAccLoop_Leq(center, ui, iatom + 1)

RECURSIVE vdwAccLoop(_, _, _)
vdwAccLoop(center, ui, iatom) ==
  IF iatom >= thee.natoms[ui] THEN 1
  ELSE LET atom == Valist_getAtom(alist, thee.atomIDs[ui][iatom + 1])
           dist == Dist2(atom.position, center)
       IN IF dist < VSQR(atom.radius) THEN 0 ELSE vdwAccLoop(center, ui, iatom + 1)

Vacc_vdwAcc(center) ==
  IF ~OnGrid(center) THEN 1 ELSE vdwAccLoop(center, PointCell(center), 0)

\* ivdwAccExclusLoop with <= in place of <
RECURSIVE ivdwAccExclusLoop_Leq(_, _, _, _, _)
ivdwAccExclusLoop_Leq(center, radius, atomID, ui, iatom) ==
  IF iatom >= thee.natoms[ui] THEN 1
  ELSE IF thee.atomIDs[ui][iatom + 1] /= atomID
       THEN LET atom == Valist_getAtom(alist, thee.atomIDs[ui][iatom + 1])
                dist == Dist2(atom.position, center)
            IN IF atom.radius > 0 /\ dist <= VSQR(atom.radius + radius)
               THEN 0
               ELSE ivdwAccExclusLoop_Leq(center, radius, atomID, ui, iatom + 1)
       ELSE ivdwAccExclusLoop_Leq(center, radius, atomID, ui, iatom + 1)

\* ivdwAccExclusLoop with the probe radius subtracted from the atom's
RECURSIVE ivdwAccExclusLoop_Minus(_, _, _, _, _)
ivdwAccExclusLoop_Minus(center, radius, atomID, ui, iatom) ==
  IF iatom >= thee.natoms[ui] THEN 1
  ELSE IF thee.atomIDs[ui][iatom + 1] /= atomID
       THEN LET atom == Valist_getAtom(alist, thee.atomIDs[ui][iatom + 1])
                dist == Dist2(atom.position, center)
            IN IF atom.radius > 0 /\ dist < VSQR(atom.radius - radius)
               THEN 0
               ELSE ivdwAccExclusLoop_Minus(center, radius, atomID, ui, iatom + 1)
       ELSE ivdwAccExclusLoop_Minus(center, radius, atomID, ui, iatom + 1)

RECURSIVE ivdwAccExclusLoop(_, _, _, _, _)
ivdwAccExclusLoop(center, radius, atomID, ui, iatom) ==
  IF iatom >= thee.natoms[ui] THEN 1
  ELSE IF thee.atomIDs[ui][iatom + 1] /= atomID
       THEN LET atom == Valist_getAtom(alist, thee.atomIDs[ui][iatom + 1])
                dist == Dist2(atom.position, center)
            IN IF atom.radius > 0 /\ dist < VSQR(atom.radius + radius)
               THEN 0
               ELSE ivdwAccExclusLoop(center, radius, atomID, ui, iatom + 1)
       ELSE ivdwAccExclusLoop(center, radius, atomID, ui, iatom + 1)

\* ivdwAccExclus refusing a probe radius equal to max_radius as well
ivdwAccExclus_Geq(center, radius, atomID) ==
  IF radius >= thee.max_radius THEN Aborted
  ELSE IF ~OnGrid(center) THEN 1
  ELSE ivdwAccExclusLoop(center, radius, atomID, PointCell(center), 0)

ivdwAccExclus(center, radius, atomID) ==
  IF radius > thee.max_radius THEN Aborted
  ELSE IF ~OnGrid(center) THEN 1
  ELSE ivdwAccExclusLoop(center, radius, atomID, PointCell(center), 0)

Vacc_ivdwAcc(center, radius) == ivdwAccExclus(center, radius, -1)

\* vec = radius * sphere[ipt] + center
SpherePoint(center, radius, ipt) ==
  [k \in 1..3 |-> RoundDiv(radius * thee.sphere[ipt + 1][k], 10000) + center[k]]

\* molAccLoop deciding on the first quadrature sample alone
molAccLoop_FirstOnly(center, radius, ipt) ==
  IF ipt >= thee.nsphere THEN 0
  ELSE LET acc == Vacc_ivdwAcc(SpherePoint(center, radius, ipt), radius)
       IN IF acc = Aborted THEN Aborted
          ELSE IF acc /= 0 THEN 1
          ELSE 0

RECURSIVE molAccLoop(_, _, _)
molAccLoop(center, radius, ipt) ==
  IF ipt >= thee.nsphere THEN 0
  ELSE LET acc == Vacc_ivdwAcc(SpherePoint(center, radius, ipt), radius)
       IN IF acc = Aborted THEN Aborted
          ELSE IF acc /= 0 THEN 1
          ELSE molAccLoop(center, radius, ipt + 1)

\* Vacc_molAcc without the early return for a point that is outside every
\* inflated atom
Vacc_molAcc_NoShortcut(center, radius) ==
  LET outside == Vacc_ivdwAcc(center, radius)
  IN IF outside = Aborted THEN Aborted
     ELSE IF Vacc_vdwAcc(center) = 0 THEN 0
     ELSE molAccLoop(center, radius, 0)

Vacc_molAcc(center, radius) ==
  LET outside == Vacc_ivdwAcc(center, radius)
  IN IF outside = Aborted THEN Aborted
     ELSE IF outside = 1 THEN 1
     ELSE IF Vacc_vdwAcc(center) = 0 THEN 0
     ELSE molAccLoop(center, radius, 0)

RECURSIVE fastMolAccLoop(_, _, _)
fastMolAccLoop(center, radius, ipt) ==
  IF ipt >= thee.nsphere THEN 0
  ELSE LET acc == Vacc_ivdwAcc(SpherePoint(center, radius, ipt), radius)
       IN IF acc = Aborted THEN Aborted
          ELSE IF acc /= 0 THEN 1
          ELSE fastMolAccLoop(center, radius, ipt + 1)

Vacc_fastMolAcc(center, radius) == fastMolAccLoop(center, radius, 0)

(***************************************************************************)
(* Values of the characteristic function: decimal floating point           *)
(***************************************************************************)
\* a value is m * 10^e with 1000 <= m <= 9999, or 0 (m = 0, e = 0)
MantMin == 10 * 10 * 10
FZero == [m |-> 0, e |-> 0]
FOne == [m |-> MantMin, e |-> -3]
\* VSMALL, 1.0e-9
VSMALL == [m |-> MantMin, e |-> -12]

FLess(a, b) ==
  IF b.m = 0 THEN FALSE
  ELSE IF a.m = 0 THEN TRUE
  ELSE (a.e < b.e) \/ (a.e = b.e /\ a.m < b.m)

FLeq(a, b) == (a = b) \/ FLess(a, b)

\* the product, truncated to the mantissa's digits
FMul(a, b) ==
  IF a.m = 0 \/ b.m = 0 THEN FZero
  ELSE LET p == a.m * b.m
       IN IF p >= MantMin * MantMin * 10
          THEN [m |-> p \div (MantMin * 10), e |-> a.e + b.e + 4]
          ELSE [m |-> p \div MantMin, e |-> a.e + b.e + 3]

\* long division: q is the mantissa so far, r the remainder, of a quotient by d
RECURSIVE FDigits(_, _, _, _)
FDigits(q, r, d, e) ==
  IF q >= MantMin THEN [m |-> q, e |-> e]
  ELSE FDigits(10 * q + ((10 * r) \div d), (10 * r) % d, d, e - 1)

\* the quotient n / d as a value, for 0 <= n <= d, d > 0, truncated
FQuot(n, d) ==
  IF n = 0 THEN FZero
  ELSE IF n = d THEN FOne
  ELSE FDigits(n \div d, n % d, d, 0)

(***************************************************************************)
(* Vacc_splineAccAtom and Vacc_splineAcc                                   *)
(***************************************************************************)
\* 0.75*sm2*w2i - 0.25*sm*sm2*w3i, as the quotient (3*sm2*win - sm*sm2) / (4*win^3)
SplineValue(sm, win) ==
  LET sm2 == VSQR(sm)
  IN FQuot(3 * sm2 * win - sm * sm2, 4 * win * win * win)

Vacc_splineAccAtom(center, win, infrad, atomID) ==
  LET atom == Valist_getAtom(alist, atomID)
      apos == atom.position
      arad == atom.radius + infrad
      stot == arad + win
      sctot == VMAX2(0, arad - win)
      dist == VSQRT(Dist2(apos, center))
  IN IF atom.radius > 100
     THEN IF dist <= sctot THEN FZero
          ELSE IF dist >= stot THEN FOne
          ELSE SplineValue(dist - arad + win, win)
     ELSE FOne

\* atomFlags[id] as the product loop reads it: the array has thee.n entries,
\* and what lies behind it (id >= thee.n) reads as the oracle says
ReadFlag(flags, oracle, id) ==
  IF id < thee.n THEN flags[id] ELSE oracle[id]

\* atomFlags[id] = v, for the ids inside the array
WriteFlag(flags, id, v) ==
  IF id < thee.n THEN [flags EXCEPT ![id] = v] ELSE flags

\* first loop: reset the flags of the atoms of the bucket
RECURSIVE splineAccReset(_, _, _)
splineAccReset(ui, iatom, flags) ==
  IF iatom >= thee.natoms[ui] THEN flags
  ELSE splineAccReset(ui, iatom + 1, WriteFlag(flags, thee.atomIDs[ui][iatom + 1], 0))

\* second loop: assemble the characteristic function.  st holds the running
\* value and the flags; the loop stops early once value < VSMALL.
RECURSIVE splineAccLoop(_, _, _, _, _, _, _)
splineAccLoop(center, win, infrad, oracle, ui, iatom, st) ==
  IF iatom >= thee.natoms[ui] THEN st
  ELSE LET atomID == thee.atomIDs[ui][iatom + 1]
       IN IF ReadFlag(st.atomFlags, oracle, atomID) = 0
          THEN LET value == FMul(st.value, Vacc_splineAccAtom(center, win, infrad, atomID))
                   next == [value |-> value, atomFlags |-> WriteFlag(st.atomFlags, atomID, 1)]
               IN IF FLess(value, VSMALL) THEN next
                  ELSE splineAccLoop(center, win, infrad, oracle, ui, iatom + 1, next)
          ELSE splineAccLoop(center, win, infrad, oracle, ui, iatom + 1, st)

\* the value Vacc_splineAcc returns and the flags it leaves, once its
\* assertion has passed
Vacc_splineAcc(center, win, infrad, oracle) ==
  IF ~OnGrid(center) THEN [value |-> FOne, atomFlags |-> thee.atomFlags]
  ELSE LET ui == PointCell(center)
       IN splineAccLoop(center, win, infrad, oracle, ui, 0,
            [value |-> FOne, atomFlags |-> splineAccReset(ui, 0, thee.atomFlags)])

\* the atoms of the point's bucket whose flag lies outside atomFlags
FlagsOutside(center) ==
  IF ~OnGrid(center) THEN {}
  ELSE LET ui == PointCell(center)
       IN { thee.atomIDs[ui][k] : k \in 1..thee.natoms[ui] } \ (0..(thee.n - 1))

(***************************************************************************)
(* The calls a client makes                                                *)
(***************************************************************************)
\* query points
Points == {
  <<0, 0, 0>>, <<1, 0, 0>>, <<100, 0, 0>>, <<200, 0, 0>>, <<225, 0, 0>>,
  <<250, 0, 0>>, <<-250, 0, 0>>, <<-340, 0, 0>>, <<0, 240, 320>>,
  <<0, 300, 250>>, <<0, 120, 400>>, <<0, 300, 400>>, <<10, 0, 0>>,
  <<-2000, 0, 0>>, <<0, 0, 3000>> }
\* probe radii a client passes
ProbeRadii == { -300, 0, 140, 200, 250 }
\* atom indices a client passes as the atom to leave out
ExclusIDs == 0..MaxAtoms

Returned(op, center, radius, atomID, ret) ==
  /\ call' = [op |-> op, center |-> center, radius |-> radius, atomID |-> atomID,
              ret |-> ret]
  /\ phase' = IF ret = Aborted THEN "aborted" ELSE phase
  /\ UNCHANGED <<nosh, parse, thread, alist, thee, ub>>

\* the client makes one call at a time, on a constructed object
Ready == phase = "built" /\ call.op = "none"

\* the client takes the value the call returned
TakeResult ==
  /\ phase = "built"
  /\ call.op /= "none"
  /\ call' = NoCall
  /\ UNCHANGED <<nosh, parse, thread, alist, thee, phase, ub>>

Call_vdwAcc ==
  /\ Ready
  /\ \E center \in Points :
       Returned("Vacc_vdwAcc", center, 0, -1, Vacc_vdwAcc(center))

Call_ivdwAcc ==
  /\ Ready
  /\ \E center \in Points, radius \in ProbeRadii :
       Returned("Vacc_ivdwAcc", center, radius, -1, Vacc_ivdwAcc(center, radius))

Call_ivdwAccExclus ==
  /\ Ready
  /\ \E center \in Points, radius \in ProbeRadii, atomID \in ExclusIDs :
       Returned("ivdwAccExclus", center, radius, atomID,
                ivdwAccExclus(center, radius, atomID))

Call_molAcc ==
  /\ Ready
  /\ \E center \in Points, radius \in ProbeRadii :
       Returned("Vacc_molAcc", center, radius, -1, Vacc_molAcc(center, radius))

Call_fastMolAcc ==
  /\ Ready
  /\ \E center \in Points, radius \in ProbeRadii :
       Returned("Vacc_fastMolAcc", center, radius, -1, Vacc_fastMolAcc(center, radius))

\* window widths and inflation radii a client passes to the spline functions
Windows == { 0, 100, 200 }
InflationRadii == { 0, 100 }
\* atom indices a client passes to Vacc_splineAccAtom
SplineIDs == 0..(VMIN2(Valist_getNumberAtoms(alist), MaxAtoms + 1) - 1)

Call_splineAccAtom ==
  /\ Ready
  /\ \E center \in Points, win \in Windows, infrad \in InflationRadii, atomID \in SplineIDs :
       /\ call' = [op |-> "Vacc_splineAccAtom", center |-> center, radius |-> infrad,
                   win |-> win, atomID |-> atomID,
                   ret |-> Vacc_splineAccAtom(center, win, infrad, atomID)]
       /\ UNCHANGED <<nosh, parse, thread, alist, thee, phase, ub>>

\* Vacc_splineAcc testing the grid bounds before max_radius
Call_splineAcc_GridFirst ==
  /\ Ready
  /\ \E center \in Points, win \in Windows, infrad \in InflationRadii :
       IF thee.max_radius < win + infrad /\ OnGrid(center)
       THEN /\ call' = [op |-> "Vacc_splineAcc", center |-> center, radius |-> infrad,
                        win |-> win, atomID |-> -1, ret |-> Aborted]
            /\ phase' = "aborted"
            /\ UNCHANGED <<nosh, parse, thread, alist, thee, ub>>
       ELSE \E oracle \in [FlagsOutside(center) -> {0, 1}] :
              LET r == Vacc_splineAcc(center, win, infrad, oracle)
              IN /\ call' = [op |-> "Vacc_splineAcc", center |-> center, radius |-> infrad,
                             win |-> win, atomID |-> -1, ret |-> r.value]
                 /\ thee' = [thee EXCEPT !.atomFlags = r.atomFlags]
                 /\ ub' = (ub \/ FlagsOutside(center) /= {})
                 /\ UNCHANGED <<nosh, parse, thread, alist, phase>>

Call_splineAcc ==
  /\ Ready
  /\ \E center \in Points, win \in Windows, infrad \in InflationRadii :
       IF thee.max_radius < win + infrad
       THEN /\ call' = [op |-> "Vacc_splineAcc", center |-> center, radius |-> infrad,
                        win |-> win, atomID |-> -1, ret |-> Aborted]
            /\ phase' = "aborted"
            /\ UNCHANGED <<nosh, parse, thread, alist, thee, ub>>
       ELSE \E oracle \in [FlagsOutside(center) -> {0, 1}] :
              LET r == Vacc_splineAcc(center, win, infrad, oracle)
              IN /\ call' = [op |-> "Vacc_splineAcc", center |-> center, radius |-> infrad,
                             win |-> win, atomID |-> -1, ret |-> r.value]
                 /\ thee' = [thee EXCEPT !.atomFlags = r.atomFlags]
                 /\ ub' = (ub \/ FlagsOutside(center) /= {})
                 /\ UNCHANGED <<nosh, parse, thread, alist, phase>>

Init ==
  /\ alist \in AtomLists
  /\ thee = NoVacc
  /\ phase = "init"
  /\ call = NoCall
  /\ ub = FALSE
  /\ thread = NoThreads
  /\ nosh = NoNOsh
  /\ parse = NoParse

Next ==
  \/ Vacc_ctor2
  \/ Vacc_ctor2Focus
  \/ Call_vdwAcc
  \/ Call_ivdwAcc
  \/ Call_ivdwAccExclus
  \/ Call_molAcc
  \/ Call_fastMolAcc
  \/ TakeResult

Spec == Init /\ [][Next]_vars

\* the same engine used through its spline functions, also on the crowded
\* atom list
InitSpline ==
  /\ alist \in AtomLists \cup { Crowd }
  /\ thee = NoVacc
  /\ phase = "init"
  /\ call = NoCall
  /\ ub = FALSE
  /\ thread = NoThreads
  /\ nosh = NoNOsh
  /\ parse = NoParse

NextSpline ==
  \/ Vacc_ctor2
  \/ Vacc_ctor2Focus
  \/ Call_splineAccAtom
  \/ Call_splineAcc
  \/ TakeResult

SpecSpline == InitSpline /\ [][NextSpline]_vars

(***************************************************************************)
(* Vacc_splineAccGradAtom                                                  *)
(***************************************************************************)
\* the quotient n / d of two integers, n >= 0, d > 0, as a value
FDiv(n, d) ==
  IF n = 0 THEN FZero ELSE FDigits(n \div d, n % d, d, 0)

\* the quotient a / b of two values, b /= 0, truncated
FDivF(a, b) ==
  IF a.m = 0 THEN FZero
  ELSE LET q == (a.m * MantMin * 10) \div b.m
       IN IF q >= MantMin * 10
          THEN [m |-> q \div 10, e |-> a.e - b.e - 3]
          ELSE [m |-> q, e |-> a.e - b.e - 4]

\* a component of a gradient: a sign and a magnitude; 0.0/0.0 is NaN
GZero == [neg |-> FALSE, m |-> 0, e |-> 0]
GNaN == [neg |-> FALSE, m |-> -1, e |-> 0]
GradZero == <<GZero, GZero, GZero>>

\* 1.5*sm*w2i - 0.75*sm2*w3i, as the quotient (6*sm*win - 3*sm2) / (4*win^3)
SplineSlope(sm, win) ==
  FDiv(6 * sm * win - 3 * VSQR(sm), 4 * win * win * win)

\* -(mygrad/mychi)*((center[k] - apos[k])/dist)
GradComponent(mygrad, mychi, delta, dist) ==
  IF dist = 0 THEN GNaN
  ELSE LET mag == FMul(FDivF(mygrad, mychi),
                       FDiv(IF delta < 0 THEN -delta ELSE delta, dist))
       IN IF mag.m = 0 THEN GZero
          ELSE [neg |-> (delta > 0), m |-> mag.m, e |-> mag.e]

\* Vacc_splineAccGradAtom with the radius test of Vacc_splineAccAtom
Vacc_splineAccGradAtom_Radius1(center, win, infrad, atomID) ==
  LET atom == Valist_getAtom(alist, atomID)
      apos == atom.position
      arad == atom.radius + infrad
      dist == VSQRT(Dist2(apos, center))
      sm == dist - arad + win
  IN IF atom.radius > 100
     THEN IF dist <= arad - win THEN GradZero
          ELSE IF dist >= arad + win THEN GradZero
          ELSE [k \in 1..3 |->
                  GradComponent(SplineSlope(sm, win), SplineValue(sm, win),
                                center[k] - apos[k], dist)]
     ELSE GradZero

\* the vector Vacc_splineAccGradAtom leaves in grad
Vacc_splineAccGradAtom(center, win, infrad, atomID) ==
  LET atom == Valist_getAtom(alist, atomID)
      apos == atom.position
      arad == atom.radius + infrad
      dist == VSQRT(Dist2(apos, center))
      sm == dist - arad + win
  IN IF atom.radius > 0
     THEN IF dist <= arad - win THEN GradZero
          ELSE IF dist >= arad + win THEN GradZero
          ELSE [k \in 1..3 |->
                  GradComponent(SplineSlope(sm, win), SplineValue(sm, win),
                                center[k] - apos[k], dist)]
     ELSE GradZero

\* VASSERT(mychi > 0.0) fails
GradAsserts(center, win, infrad, atomID) ==
  LET atom == Valist_getAtom(alist, atomID)
      arad == atom.radius + infrad
      dist == VSQRT(Dist2(atom.position, center))
  IN /\ atom.radius > 0
     /\ ~(dist <= arad - win) /\ ~(dist >= arad + win)
     /\ ~FLess(FZero, SplineValue(dist - arad + win, win))

Call_splineAccGradAtom ==
  /\ Ready
  /\ \E center \in Points, win \in Windows, infrad \in InflationRadii, atomID \in SplineIDs :
       /\ call' = [op |-> "Vacc_splineAccGradAtom", center |-> center, radius |-> infrad,
                   win |-> win, atomID |-> atomID,
                   ret |-> Vacc_splineAccGradAtom(center, win, infrad, atomID)]
       /\ phase' = IF GradAsserts(center, win, infrad, atomID) THEN "aborted" ELSE phase
       /\ UNCHANGED <<nosh, parse, thread, alist, thee, ub>>

\* the engine used through its gradient function
NextGrad ==
  \/ Vacc_ctor2
  \/ Vacc_ctor2Focus
  \/ Call_splineAccGradAtom
  \/ TakeResult

SpecGrad == Init /\ [][NextGrad]_vars

(***************************************************************************)
(* Vacc_atomSASA and Vacc_totalSASA                                        *)
(***************************************************************************)
\* VPI as the fraction VPI_Num / VPI_Den
VPI_Num == 355
VPI_Den == 113
\* the double 0.0/0.0
NaNArea == -2

\* area/((double)(thee->nsphere))*4.0*VPI*(tRad+srad)*(tRad+srad), in squared
\* hundredths
SphereAreaFraction(area, nsphere, rtot) ==
  IF nsphere = 0 THEN NaNArea
  ELSE (area * 4 * VPI_Num * rtot * rtot) \div (nsphere * VPI_Den)

\* vec = (tRad+srad)*sphere[ipt] + tPos
SASAPoint(srad, iatom, ipt) ==
  SpherePoint(Valist_getAtom(alist, iatom).position,
              Valist_getAtom(alist, iatom).radius + srad, ipt)

\* the loop of Vacc_atomSASA counting the samples ivdwAccExclus refuses
RECURSIVE atomSASALoop_Covered(_, _, _, _)
atomSASALoop_Covered(srad, iatom, ipt, area) ==
  IF ipt >= thee.nsphere THEN area
  ELSE LET acc == ivdwAccExclus(SASAPoint(srad, iatom, ipt), srad, iatom)
       IN IF acc = Aborted THEN Aborted
          ELSE atomSASALoop_Covered(srad, iatom, ipt + 1,
                                    IF acc = 0 THEN area + 1 ELSE area)

\* the loop of Vacc_atomSASA: area counts the samples that ivdwAccExclus accepts
RECURSIVE atomSASALoop(_, _, _, _)
atomSASALoop(srad, iatom, ipt, area) ==
  IF ipt >= thee.nsphere THEN area
  ELSE LET acc == ivdwAccExclus(SASAPoint(srad, iatom, ipt), srad, iatom)
       IN IF acc = Aborted THEN Aborted
          ELSE atomSASALoop(srad, iatom, ipt + 1, IF acc /= 0 THEN area + 1 ELSE area)

Vacc_atomSASA(srad, iatom) ==
  LET area == atomSASALoop(srad, iatom, 0, 0)
  IN IF area = Aborted THEN Aborted
     ELSE SphereAreaFraction(area, thee.nsphere,
                             Valist_getAtom(alist, iatom).radius + srad)

\* area += thee->area[i] on doubles
AddArea(a, b) == IF a = NaNArea \/ b = NaNArea THEN NaNArea ELSE a + b

\* Vacc_totalSASA that sums without filling thee->area
RECURSIVE totalSASALoop_NoCache(_, _, _)
totalSASALoop_NoCache(radius, i, st) ==
  IF i >= Valist_getNumberAtoms(alist) THEN st
  ELSE LET a == Vacc_atomSASA(radius, i)
       IN IF a = Aborted THEN [st EXCEPT !.aborted = TRUE]
          ELSE totalSASALoop_NoCache(radius, i + 1,
                 [st EXCEPT !.total = AddArea(st.total, a)])

\* the loop of Vacc_totalSASA; st holds the running total, thee->area and
\* whether an assertion failed on the way
RECURSIVE totalSASALoop(_, _, _)
totalSASALoop(radius, i, st) ==
  IF i >= Valist_getNumberAtoms(alist) THEN st
  ELSE LET a == Vacc_atomSASA(radius, i)
       IN IF a = Aborted THEN [st EXCEPT !.aborted = TRUE]
          ELSE totalSASALoop(radius, i + 1,
                 [ total |-> AddArea(st.total, a),
                   area |-> [st.area EXCEPT ![i] = a],
                   aborted |-> FALSE ])

Vacc_totalSASA(radius) ==
  totalSASALoop(radius, 0, [total |-> 0, area |-> thee.area, aborted |-> FALSE])

\* atom indices a client passes to Vacc_atomSASA
SASAIDs == 0..(Valist_getNumberAtoms(alist) - 1)

Call_atomSASA ==
  /\ Ready
  /\ \E srad \in ProbeRadii, iatom \in SASAIDs :
       Returned("Vacc_atomSASA", Valist_getAtom(alist, iatom).position, srad, iatom,
                Vacc_atomSASA(srad, iatom))

Call_totalSASA ==
  /\ Ready
  /\ \E radius \in ProbeRadii :
       LET r == Vacc_totalSASA(radius)
       IN /\ call' = [op |-> "Vacc_totalSASA", center |-> <<0, 0, 0>>, radius |-> radius,
                      atomID |-> -1, ret |-> IF r.aborted THEN Aborted ELSE r.total]
          /\ thee' = [thee EXCEPT !.area = r.area]
          /\ phase' = IF r.aborted THEN "aborted" ELSE phase
          /\ UNCHANGED <<nosh, parse, thread, alist, ub>>

\* the engine used through its surface-area functions
NextSASA ==
  \/ Vacc_ctor2
  \/ Vacc_ctor2Focus
  \/ Call_atomSASA
  \/ Call_totalSASA
  \/ TakeResult

SpecSASA == Init /\ [][NextSASA]_vars

(***************************************************************************)
(* Several threads on one object.  Vacc_splineAcc and Vacc_totalSASA run   *)
(* one load or store of shared memory (thee->atomFlags, thee->area) at a   *)
(* step; nothing in the code orders the steps of different threads.        *)
(***************************************************************************)
\* what the threads pass to the two functions
RacePoints == { <<200, 0, 0>> }
RaceWindows == { 100 }
RaceInflation == { 0 }
RaceProbes == { 0, 140 }

\* thread t has no call in progress
IsIdle(t) == thread[t].op = "none"

\* no other thread is inside a call of the function op
NoneElseIn(t, op) ==
  \A u \in Threads \ {t} : ~(thread[u].op = op /\ thread[u].pc /= "done")

\* thread t moves to the record rec; the threads that are inside the same
\* function no longer run alone
ThreadStep(t, rec) ==
  [u \in Threads |->
     IF u = t THEN rec
     ELSE IF thread[u].op = rec.op /\ thread[u].pc /= "done"
          THEN [thread[u] EXCEPT !.alone = FALSE]
          ELSE thread[u]]

\* the loops of Vacc_splineAcc leaving the second loop after the first atom
\* it meets
splineAccNext_FirstOnly(rec, stay, after) ==
  IF after = "done" \/ rec.iatom + 1 >= thee.natoms[rec.ui]
  THEN IF after = "done" THEN [rec EXCEPT !.pc = "done", !.ret = rec.value]
       ELSE [rec EXCEPT !.pc = after, !.iatom = 0]
  ELSE [rec EXCEPT !.pc = stay, !.iatom = rec.iatom + 1]

\* the end of an iteration of a loop of Vacc_splineAcc over the bucket: the
\* loop goes on at `stay` with the next atom, or is left for `after`
splineAccNext(rec, stay, after) ==
  IF rec.iatom + 1 >= thee.natoms[rec.ui]
  THEN IF after = "done" THEN [rec EXCEPT !.pc = "done", !.ret = rec.value]
       ELSE [rec EXCEPT !.pc = after, !.iatom = 0]
  ELSE [rec EXCEPT !.pc = stay, !.iatom = rec.iatom + 1]

\* entry of Vacc_splineAcc up to the first loop
Start_splineAcc(t) ==
  /\ phase = "built"
  /\ IsIdle(t)
  /\ \E center \in RacePoints, win \in RaceWindows, infrad \in RaceInflation :
       LET rec == [op |-> "Vacc_splineAcc", pc |-> "reset", center |-> center,
                   win |-> win, infrad |-> infrad, ui |-> 0, iatom |-> 0,
                   value |-> FOne, ret |-> FOne,
                   alone |-> NoneElseIn(t, "Vacc_splineAcc")]
       IN IF thee.max_radius < win + infrad
          THEN /\ phase' = "aborted"
               /\ thread' = ThreadStep(t, [rec EXCEPT !.pc = "aborted"])
          ELSE /\ phase' = phase
               /\ thread' = ThreadStep(t,
                    IF ~OnGrid(center) THEN [rec EXCEPT !.pc = "done"]
                    ELSE IF thee.natoms[PointCell(center)] = 0
                         THEN [rec EXCEPT !.pc = "done", !.ui = PointCell(center)]
                         ELSE [rec EXCEPT !.ui = PointCell(center)])
  /\ UNCHANGED <<nosh, parse, alist, thee, call, ub>>

\* one iteration of the first loop: thee->atomFlags[atomID] = 0
Step_splineAccReset(t) ==
  /\ phase = "built"
  /\ thread[t].op = "Vacc_splineAcc" /\ thread[t].pc = "reset"
  /\ LET rec == thread[t]
         atomID == thee.atomIDs[rec.ui][rec.iatom + 1]
     IN /\ thee' = [thee EXCEPT !.atomFlags = WriteFlag(thee.atomFlags, atomID, 0)]
        /\ ub' = (ub \/ atomID >= thee.n)
        /\ thread' = ThreadStep(t, splineAccNext(rec, "reset", "test"))
  /\ UNCHANGED <<nosh, parse, alist, phase, call>>

\* the test of the second loop: if (!(thee->atomFlags[atomID]))
Step_splineAccTest(t) ==
  /\ phase = "built"
  /\ thread[t].op = "Vacc_splineAcc" /\ thread[t].pc = "test"
  /\ LET rec == thread[t]
         atomID == thee.atomIDs[rec.ui][rec.iatom + 1]
     IN \E oracle \in [FlagsOutside(rec.center) -> {0, 1}] :
          /\ ub' = (ub \/ atomID >= thee.n)
          /\ thread' = ThreadStep(t,
               IF ReadFlag(thee.atomFlags, oracle, atomID) = 0
               THEN [rec EXCEPT !.pc = "mark"]
               ELSE splineAccNext(rec, "test", "done"))
  /\ UNCHANGED <<nosh, parse, alist, thee, phase, call>>

\* the body of the second loop: the flag is set and the factor of the atom
\* is multiplied in
Step_splineAccMark(t) ==
  /\ phase = "built"
  /\ thread[t].op = "Vacc_splineAcc" /\ thread[t].pc = "mark"
  /\ LET rec == thread[t]
         atomID == thee.atomIDs[rec.ui][rec.iatom + 1]
         value == FMul(rec.value, Vacc_splineAccAtom(rec.center, rec.win, rec.infrad, atomID))
         counted == [rec EXCEPT !.value = value]
     IN /\ thee' = [thee EXCEPT !.atomFlags = WriteFlag(thee.atomFlags, atomID, 1)]
        /\ ub' = (ub \/ atomID >= thee.n)
        /\ thread' = ThreadStep(t,
             IF FLess(value, VSMALL) THEN [counted EXCEPT !.pc = "done", !.ret = value]
             ELSE splineAccNext(counted, "test", "done"))
  /\ UNCHANGED <<nosh, parse, alist, phase, call>>

\* entry of Vacc_totalSASA
Start_totalSASA(t) ==
  /\ phase = "built"
  /\ IsIdle(t)
  /\ \E radius \in RaceProbes :
       LET rec == [op |-> "Vacc_totalSASA", pc |-> "store", radius |-> radius,
                   i |-> 0, area |-> 0, stored |-> 0, ret |-> 0,
                   alone |-> NoneElseIn(t, "Vacc_totalSASA")]
       IN thread' = ThreadStep(t,
            IF Valist_getNumberAtoms(alist) = 0 THEN [rec EXCEPT !.pc = "done"]
            ELSE rec)
  /\ UNCHANGED <<nosh, parse, alist, thee, phase, call, ub>>

\* thee->area[i] = Vacc_atomSASA(thee, radius, i)
Step_totalSASAStore(t) ==
  /\ phase = "built"
  /\ thread[t].op = "Vacc_totalSASA" /\ thread[t].pc = "store"
  /\ LET rec == thread[t]
         a == Vacc_atomSASA(rec.radius, rec.i)
     IN IF a = Aborted
        THEN /\ phase' = "aborted"
             /\ thread' = ThreadStep(t, [rec EXCEPT !.pc = "aborted"])
             /\ thee' = thee
        ELSE /\ phase' = phase
             /\ thread' = ThreadStep(t, [rec EXCEPT !.pc = "add", !.stored = a])
             /\ thee' = [thee EXCEPT !.area[rec.i] = a]
  /\ UNCHANGED <<nosh, parse, alist, call, ub>>

\* area += (thee->area[i]).  The load races with the stores of the other
\* threads: it yields the value in memory or the value this thread has just
\* stored, which the compiler may have kept in a register.
Step_totalSASAAdd(t) ==
  /\ phase = "built"
  /\ thread[t].op = "Vacc_totalSASA" /\ thread[t].pc = "add"
  /\ LET rec == thread[t]
     IN \E loaded \in { thee.area[rec.i], rec.stored } :
          LET area == AddArea(rec.area, loaded)
          IN thread' = ThreadStep(t,
               IF rec.i + 1 >= Valist_getNumberAtoms(alist)
               THEN [rec EXCEPT !.pc = "done", !.area = area, !.ret = area]
               ELSE [rec EXCEPT !.pc = "store", !.area = area, !.i = rec.i + 1])
  /\ UNCHANGED <<nosh, parse, alist, thee, phase, call, ub>>

\* the caller of thread t takes the value the call returned
Join(t) ==
  /\ phase = "built"
  /\ thread[t].op /= "none" /\ thread[t].pc = "done"
  /\ call' = thread[t]
  /\ thread' = [thread EXCEPT ![t] = Idle]
  /\ UNCHANGED <<nosh, parse, alist, thee, phase, ub>>

NextRace ==
  \/ Vacc_ctor2
  \/ Vacc_ctor2Focus
  \/ \E t \in Threads : Start_splineAcc(t)
  \/ \E t \in Threads : Step_splineAccReset(t)
  \/ \E t \in Threads : Step_splineAccTest(t)
  \/ \E t \in Threads : Step_splineAccMark(t)
  \/ \E t \in Threads : Start_totalSASA(t)
  \/ \E t \in Threads : Step_totalSASAStore(t)
  \/ \E t \in Threads : Step_totalSASAAdd(t)
  \/ \E t \in Threads : Join(t)

\* the atom lists of the object the threads share
RaceLists == { <<AtomPool[1], AtomPool[3]>> }

InitRace ==
  /\ alist \in RaceLists
  /\ thee = NoVacc
  /\ phase = "init"
  /\ call = NoCall
  /\ ub = FALSE
  /\ thread = NoThreads
  /\ nosh = NoNOsh
  /\ parse = NoParse

SpecRace == InitRace /\ [][NextRace]_vars

(***************************************************************************)
(* Vacc_sphere, pass by pass: the count pass, the allocation and the fill  *)
(* pass, one iteration of a theta loop at a step.  call holds the locals   *)
(* and request, the caller's copy of the number it asked for.              *)
(***************************************************************************)
\* the largest number of points requested
MaxRequest == 52

\* frac, ntheta, dtheta, nphimax; nactual = 0
Sphere_Begin ==
  /\ phase = "init"
  /\ call.op = "none"
  /\ \E npts \in 0..MaxRequest :
       call' = [op |-> "Vacc_sphere", pc |-> "count", request |-> npts, npts |-> npts,
                ntheta |-> SphereNTheta(npts), itheta |-> 0, nactual |-> 0,
                allocated |-> 0, points |-> << >>]
  /\ UNCHANGED <<nosh, parse, alist, thee, phase, ub, thread>>

\* an iteration of the count loop, or its end: the array of nactual points
\* is allocated and nactual is set back to 0
Sphere_Count ==
  /\ call.op = "Vacc_sphere" /\ call.pc = "count"
  /\ call' = IF call.itheta < call.ntheta
             THEN [call EXCEPT !.nactual = call.nactual + SphereNPhi(call.ntheta, call.itheta),
                               !.itheta = call.itheta + 1]
             ELSE [call EXCEPT !.pc = "fill", !.allocated = call.nactual,
                               !.nactual = 0, !.itheta = 0]
  /\ UNCHANGED <<nosh, parse, alist, thee, phase, ub, thread>>

\* an iteration of the fill loop: the points of ring itheta are written at
\* points[nactual], points[nactual + 1], ...; or its end: *npts = nactual
Sphere_Fill ==
  /\ call.op = "Vacc_sphere" /\ call.pc = "fill"
  /\ IF call.itheta < call.ntheta
     THEN LET ring == SphereRing(call.ntheta, call.itheta)
          IN /\ call' = [call EXCEPT !.points = call.points \o ring,
                                     !.nactual = call.nactual + Len(ring),
                                     !.itheta = call.itheta + 1]
             /\ ub' = (ub \/ call.nactual + Len(ring) > call.allocated)
     ELSE /\ call' = [call EXCEPT !.pc = "done", !.npts = call.nactual]
          /\ ub' = ub
  /\ UNCHANGED <<nosh, parse, alist, thee, phase, thread>>

\* the caller takes the points
Sphere_Return ==
  /\ call.op = "Vacc_sphere" /\ call.pc = "done"
  /\ call' = NoCall
  /\ UNCHANGED <<nosh, parse, alist, thee, phase, ub, thread>>

NextSphere ==
  \/ Sphere_Begin
  \/ Sphere_Count
  \/ Sphere_Fill
  \/ Sphere_Return

InitSphere ==
  /\ alist = <<AtomPool[1]>>
  /\ thee = NoVacc
  /\ phase = "init"
  /\ call = NoCall
  /\ ub = FALSE
  /\ thread = NoThreads
  /\ nosh = NoNOsh
  /\ parse = NoParse

SpecSphere == InitSphere /\ [][NextSphere]_vars

(***************************************************************************)
(* Vacc_dtor and Vacc_dtor2.  A block of memory is named by the pointer    *)
(* that holds it and carries the number of elements it was allocated or    *)
(* freed with.                                                             *)
(***************************************************************************)
Block(ptr, num) == [ptr |-> ptr, num |-> num]

\* the blocks Vacc_ctor / Vacc_ctorFocus have allocated for the object t
Allocations(t) ==
  { Block(<<"Vacc">>, 1), Block(<<"vmem">>, 1),
    Block(<<"natoms">>, t.n), Block(<<"atomFlags">>, t.n), Block(<<"atomIDs">>, t.n),
    Block(<<"area">>, Cardinality(DOMAIN t.area)),
    Block(<<"sphere">>, Len(t.sphere)) }
  \cup { Block(<<"sphere", i>>, 3) : i \in 1..Len(t.sphere) }
  \cup { Block(<<"atomIDs", ui>>, Len(t.atomIDs[ui])) :
           ui \in { c \in 0..(t.n - 1) : Len(t.atomIDs[c]) > 0 } }

\* Vacc_dtor2 freeing the bucket of every cell, empty or not
Vacc_dtor2_AllCells(t) ==
  { Block(<<"atomIDs", ui>>, t.natoms[ui]) : ui \in 0..(t.n - 1) }
  \cup { Block(<<"atomIDs">>, t.n), Block(<<"natoms">>, t.n), Block(<<"atomFlags">>, t.n) }
  \cup { Block(<<"sphere", i>>, 3) : i \in 1..t.nsphere }
  \cup { Block(<<"sphere">>, t.nsphere),
         Block(<<"area">>, Valist_getNumberAtoms(alist)),
         Block(<<"vmem">>, 1) }

\* the blocks Vacc_dtor2 frees, in the sizes it passes to Vmem_free
Vacc_dtor2(t) ==
  { Block(<<"atomIDs", ui>>, t.natoms[ui]) :
      ui \in { c \in 0..(t.n - 1) : t.natoms[c] > 0 } }
  \cup { Block(<<"atomIDs">>, t.n), Block(<<"natoms">>, t.n), Block(<<"atomFlags">>, t.n) }
  \cup { Block(<<"sphere", i>>, 3) : i \in 1..t.nsphere }
  \cup { Block(<<"sphere">>, t.nsphere),
         Block(<<"area">>, Valist_getNumberAtoms(alist)),
         Block(<<"vmem">>, 1) }

\* Vacc_dtor on the handle of a constructed object, or on a null handle
Vacc_dtor ==
  /\ \/ phase = "built" /\ call.op = "none"
     \/ phase = "destroyed"
  /\ IF phase = "built"
     THEN /\ call' = [op |-> "Vacc_dtor",
                      freed |-> Vacc_dtor2(thee) \cup { Block(<<"Vacc">>, 1) }]
          /\ thee' = NoVacc
          /\ phase' = "destroyed"
     ELSE /\ call' = [op |-> "Vacc_dtor", freed |-> {}]
          /\ UNCHANGED <<nosh, parse, thee, phase>>
  /\ UNCHANGED <<nosh, parse, alist, ub, thread>>

NextDtor ==
  \/ Vacc_ctor2
  \/ Vacc_ctor2Focus
  \/ Call_vdwAcc
  \/ TakeResult
  \/ Vacc_dtor

SpecDtor == Init /\ [][NextDtor]_vars

(***************************************************************************)
(* The input parser (nosh.c).  The NOsh object holds the section counters  *)
(* and the tables they index; NOsh_parse reads the input token by token    *)
(* with Vio_scanf and hands each section to its parser.  A step of the     *)
(* model is one call of Vio_scanf and the code that runs up to the next    *)
(* one.  A token is modelled by what strcasecmp and sscanf tell of it.     *)
(***************************************************************************)
\* capacities of the tables of the NOsh object, scaled down
NOSH_MAXMOL == 1
NOSH_MAXCALC == 2
NOSH_MAXPRINT == 2
NOSH_MAXPOP == 2
\* the number of tokens the input streams hold altogether
MaxTokens == 9

\* the token at the end of the input: Vio_scanf does not return 1
EOF == "EOF"
\* "1" is a token sscanf reads as an integer, "word" any other token
Tokens == { "read", "print", "elec", "quit", "end", "mol", "diel", "kappa",
            "charge", "pqr", "dx", "energy", "1", "+", "-", "fem",
            "mg-manual", "mg-auto", "mg-para", "mg-dummy", "word" }
\* what Vio_scanf(sock, "%s", tok) can deliver after ntok tokens
Vio_scanf(ntok) == IF ntok < MaxTokens THEN Tokens \cup {EOF} ELSE {EOF}
\* the values an int can hold in storage nobody has written
Indeterminate == { -1, 0, 1 }

\* NOsh_ctor2 on fresh storage or on an object used before: every counter
\* it assigns is zero afterwards, the fields it does not assign keep what
\* the storage held.  No call of NOsh_parse has been made on the new
\* object; the input stream is where it was.
NOsh_ctor2 ==
  /\ parse.pc \in {"idle", "done"}
  /\ parse' = [NoParse EXCEPT !.ntok = parse.ntok]
  /\ \E held \in Indeterminate :
       nosh' = [NoNOsh EXCEPT !.made = TRUE,
                              !.nelec = IF nosh.made THEN nosh.nelec
                                                     ELSE held,
                              !.printnarg = nosh.printnarg,
                              !.elec2calc = nosh.elec2calc,
                              !.outside = nosh.outside]
  /\ UNCHANGED <<alist, thee, phase, call, ub, thread>>

\* NOsh_parse as it would be without the test of the parsed flag
NOsh_parse_Again ==
  /\ parse.pc \in {"idle", "done"}
  /\ \E accepted \in BOOLEAN :
       parse' = IF ~nosh.made \/ ~accepted
                THEN [parse EXCEPT !.pc = "done", !.ret = 0,
                                   !.last = NoSection, !.tok = ""]
                ELSE [parse EXCEPT !.pc = "top", !.last = NoSection,
                                   !.tok = ""]
  /\ UNCHANGED <<alist, thee, phase, call, ub, thread, nosh>>

\* the call of NOsh_parse up to its first Vio_scanf: a null object, an
\* object already parsed or a socket that cannot be opened return 0
NOsh_parse ==
  /\ parse.pc \in {"idle", "done"}
  /\ \E accepted \in BOOLEAN :
       parse' = IF ~nosh.made \/ nosh.parsed # 0 \/ ~accepted
                THEN [parse EXCEPT !.pc = "done", !.ret = 0,
                                   !.last = NoSection, !.tok = ""]
                ELSE [parse EXCEPT !.pc = "top", !.last = NoSection,
                                   !.tok = ""]
  /\ UNCHANGED <<alist, thee, phase, call, ub, thread, nosh>>

\* a section parser returns rc to the loop of NOsh_parse, which goes on
\* with the next token or returns 0; what the parser read and left behind
\* is kept in last
SectionReturn(name, rc, p, n) ==
  [p EXCEPT !.pc = IF rc = 0 THEN "done" ELSE "top",
            !.ret = IF rc = 0 THEN 0 ELSE @,
            !.last = [section |-> name, rc |-> rc, toks |-> p.toks,
                      before |-> p.idx, nprint |-> n.nprint,
                      narg |-> IF p.idx \in DOMAIN n.printnarg
                               THEN n.printnarg[p.idx] ELSE 0]]

\* a store at index i of a table of the given capacity: the tables stored
\* outside their bounds are remembered
Store(n, table, i, capacity) ==
  IF i >= 0 /\ i < capacity THEN n
  ELSE [n EXCEPT !.outside = @ \cup {table}]

\* the parser after Vio_scanf delivered tok
Scanned(tok) == [parse EXCEPT !.ntok = IF tok = EOF THEN @ ELSE @ + 1]

\* the loop of NOsh_parse: the token that opens a section enters its
\* parser, which runs up to its first Vio_scanf; QUIT or the end of the
\* input ends the parse
Parse_Top ==
  /\ parse.pc = "top"
  /\ \E tok \in Vio_scanf(parse.ntok) :
       LET p == [Scanned(tok) EXCEPT !.toks = <<>>, !.idx = nosh.nprint]
       IN  CASE tok \in {EOF, "quit"} ->
                  /\ nosh' = [nosh EXCEPT !.parsed = 1]
                  /\ parse' = [p EXCEPT !.pc = "done", !.ret = 1,
                                         !.tok = tok]
             [] tok = "read" ->
                  /\ nosh' = nosh
                  /\ parse' = IF nosh.parsed # 0
                              THEN SectionReturn("read", 0, p, nosh)
                              ELSE [p EXCEPT !.pc = "read"]
             [] tok = "print" ->
                  /\ nosh' = nosh
                  /\ parse' = IF nosh.parsed # 0
                                 \/ nosh.nprint >= NOSH_MAXPRINT
                              THEN SectionReturn("print", 0, p, nosh)
                              ELSE [p EXCEPT !.pc = "print_what"]
             [] tok = "elec" ->
                  IF nosh.parsed # 0
                  THEN /\ nosh' = nosh
                       /\ parse' = SectionReturn("elec", 0, p, nosh)
                  ELSE IF nosh.ncalc >= NOSH_MAXCALC
                  THEN /\ nosh' = nosh
                       /\ parse' = SectionReturn("elec", 1, p, nosh)
                  ELSE /\ nosh' = [nosh EXCEPT !.nelec = @ + 1]
                       /\ parse' = [p EXCEPT !.pc = "elec"]
             [] OTHER ->
                  /\ nosh' = nosh
                  /\ parse' = p
  /\ UNCHANGED <<alist, thee, phase, call, ub, thread>>

\* the format NOsh_parseREAD knows for each kind of entry
ReadFormat == [mol |-> "pqr", diel |-> "dx", kappa |-> "dx", charge |-> "dx"]

\* the loop of NOsh_parseREAD: END ends the section, the keyword of an
\* entry is followed by its format, any other token is ignored
Parse_READ ==
  /\ parse.pc = "read"
  /\ \E tok \in Vio_scanf(parse.ntok) :
       LET p == Scanned(tok)
       IN  parse' =
             CASE tok = EOF -> SectionReturn("read", 0, p, nosh)
               [] tok = "end" -> SectionReturn("read", 1, p, nosh)
               [] tok \in DOMAIN ReadFormat ->
                    [p EXCEPT !.pc = "read_format", !.kind = tok]
               [] OTHER -> p
  /\ UNCHANGED <<alist, thee, phase, call, ub, thread, nosh>>

\* the format of an entry: an unknown format is ignored
Parse_READ_format ==
  /\ parse.pc = "read_format"
  /\ \E tok \in Vio_scanf(parse.ntok) :
       LET p == Scanned(tok)
       IN  parse' =
             CASE tok = EOF -> SectionReturn("read", 0, p, nosh)
               [] tok = ReadFormat[parse.kind] ->
                    [p EXCEPT !.pc = "read_path",
                              !.left = IF parse.kind = "diel" THEN 3
                                                               ELSE 1]
               [] OTHER -> [p EXCEPT !.pc = "read"]
  /\ UNCHANGED <<alist, thee, phase, call, ub, thread, nosh>>

\* the entry of the given kind is stored at the counter's index, and the
\* counter grows once the last path of the entry is stored
StoreEntry(n, kind, left) ==
  CASE kind = "mol" ->
         [Store(n, "molpath", n.nmol, NOSH_MAXMOL)
            EXCEPT !.nmol = @ + 1]
    [] kind = "diel" ->
         IF left > 1 THEN Store(n, "dielpath", n.ndiel, NOSH_MAXMOL)
         ELSE [Store(n, "dielpath", n.ndiel, NOSH_MAXMOL)
                 EXCEPT !.ndiel = @ + 1]
    [] kind = "kappa" ->
         [Store(n, "kappapath", n.nkappa, NOSH_MAXMOL)
            EXCEPT !.nkappa = @ + 1]
    [] kind = "charge" ->
         [Store(n, "chargepath", n.ncharge, NOSH_MAXMOL)
            EXCEPT !.ncharge = @ + 1]

\* a path of an entry: any token is a path
Parse_READ_path ==
  /\ parse.pc = "read_path"
  /\ \E tok \in Vio_scanf(parse.ntok) :
       LET p == Scanned(tok)
       IN  IF tok = EOF
           THEN /\ parse' = SectionReturn("read", 0, p, nosh)
                /\ nosh' = nosh
           ELSE /\ parse' = IF parse.left > 1
                            THEN [p EXCEPT !.left = @ - 1]
                            ELSE [p EXCEPT !.pc = "read", !.left = 0]
                /\ nosh' = StoreEntry(nosh, parse.kind, parse.left)
  /\ UNCHANGED <<alist, thee, phase, call, ub, thread>>

\* the first token of a PRINT section names what to print: only energy
\* is known, and it opens the entry idx with no argument yet
Parse_PRINT_what ==
  /\ parse.pc = "print_what"
  /\ \E tok \in Vio_scanf(parse.ntok) :
       LET p == [Scanned(tok) EXCEPT !.toks = Append(@, tok)]
       IN  IF tok = "energy"
           THEN /\ nosh' = [nosh EXCEPT
                              !.printnarg = (parse.idx :> 0) @@ @]
                /\ parse' = [p EXCEPT !.pc = "print", !.expect = 0]
           ELSE /\ nosh' = nosh
                /\ parse' = SectionReturn("print", 0, p, nosh)
  /\ UNCHANGED <<alist, thee, phase, call, ub, thread>>

\* an entry that takes any number of operators
TooManyOps_Never(narg) == FALSE

\* the entry cannot take another operator
TooManyOps(narg) == narg >= NOSH_MAXPOP

\* the loop of NOsh_parsePRINT: calculation IDs and operators alternate
\* (expect is 0 when an ID is due, 1 when an operator or END is due), END
\* after an ID completes the entry
Parse_PRINT ==
  /\ parse.pc = "print"
  /\ \E tok \in Vio_scanf(parse.ntok) :
       LET p == [Scanned(tok) EXCEPT !.toks = Append(@, tok)]
           idx == parse.idx
           narg == nosh.printnarg[idx]
           counted == [nosh EXCEPT !.printnarg[idx] = @ + 1]
           fail == /\ nosh' = nosh
                   /\ parse' = SectionReturn("print", 0, p, nosh)
       IN  CASE tok = EOF -> fail
             [] tok = "end" ->
                  IF parse.expect # 0
                  THEN LET n == [counted EXCEPT !.nprint = @ + 1]
                       IN  /\ nosh' = n
                           /\ parse' = SectionReturn("print", 1, p, n)
                  ELSE fail
             [] tok = "1" ->
                  IF parse.expect = 0
                  THEN /\ nosh' = Store(nosh, "printcalc", narg, NOSH_MAXPOP)
                       /\ parse' = [p EXCEPT !.expect = 1]
                  ELSE fail
             [] tok \in {"+", "-"} ->
                  IF parse.expect = 1
                  THEN LET n == Store(counted, "printop", narg, NOSH_MAXPOP)
                       IN  /\ nosh' = n
                           /\ parse' = IF TooManyOps(n.printnarg[idx])
                                       THEN SectionReturn("print", 0, p, n)
                                       ELSE [p EXCEPT !.expect = 0]
                  ELSE fail
             [] OTHER -> fail
  /\ UNCHANGED <<alist, thee, phase, call, ub, thread>>

\* the calculation the ELEC statement asks for gets the slot ncalc-1, and
\* elec2calc maps the statement nelec-1 to it
NewCalc(n) ==
  LET made == [n EXCEPT !.ncalc = @ + 1]
  IN  [Store(made, "elec2calc", made.nelec - 1, NOSH_MAXCALC)
         EXCEPT !.elec2calc = ((made.nelec - 1) :> (made.ncalc - 1)) @@ @]

\* NOsh_parseELEC after it has counted the statement: the next token has
\* to be the method.  NOsh_parseFEM reads nothing and returns 1 unless
\* FEMparm_ctor gave it no object.
Parse_ELEC ==
  /\ parse.pc = "elec"
  /\ \E tok \in Vio_scanf(parse.ntok), parm \in BOOLEAN :
       LET p == Scanned(tok)
           fail == /\ nosh' = nosh
                   /\ parse' = SectionReturn("elec", 0, p, nosh)
       IN  CASE tok = EOF -> fail
             [] tok \in {"mg-manual", "mg-auto", "mg-para", "mg-dummy"} ->
                  /\ nosh' = nosh
                  /\ parse' = [p EXCEPT !.pc = "mg"]
             [] tok = "fem" ->
                  IF nosh.ncalc >= NOSH_MAXCALC
                  THEN /\ nosh' = nosh
                       /\ parse' = SectionReturn("elec", 1, p, nosh)
                  ELSE /\ nosh' = NewCalc(nosh)
                       /\ parse' = SectionReturn("elec", IF parm THEN 1 ELSE 0,
                                                 p, NewCalc(nosh))
             [] OTHER -> fail
  /\ UNCHANGED <<alist, thee, phase, call, ub, thread>>

\* NOsh_parseMG reads the rest of the ELEC section: it either fails, or
\* creates the calculation when there is room for it, and returns 1
NOsh_parseMG ==
  /\ parse.pc = "mg"
  /\ \E ntok \in parse.ntok..MaxTokens, rc \in {0, 1} :
       LET p == [parse EXCEPT !.ntok = ntok]
           n == IF rc = 1 /\ nosh.ncalc < NOSH_MAXCALC THEN NewCalc(nosh)
                ELSE nosh
       IN  /\ nosh' = n
           /\ parse' = SectionReturn("elec", rc, p, n)
  /\ UNCHANGED <<alist, thee, phase, call, ub, thread>>

NextNOsh ==
  \/ NOsh_ctor2
  \/ NOsh_parse
  \/ Parse_Top
  \/ Parse_READ
  \/ Parse_READ_format
  \/ Parse_READ_path
  \/ Parse_PRINT_what
  \/ Parse_PRINT
  \/ Parse_ELEC
  \/ NOsh_parseMG

\* the parser runs before any molecule is read: no atom list, no Vacc
InitNOsh ==
  /\ alist = <<>>
  /\ thee = NoVacc
  /\ phase = "init"
  /\ call = NoCall
  /\ ub = FALSE
  /\ thread = NoThreads
  /\ nosh = NoNOsh
  /\ parse = NoParse

SpecNOsh == InitNOsh /\ [][NextNOsh]_vars

(***************************************************************************)
(* Vocabulary of the properties                                            *)
(***************************************************************************)
AtomIDs == 0..(Valist_getNumberAtoms(alist) - 1)
Cells == 0..(thee.n - 1)
\* the atom indices a cell's bucket holds
Bucket(ui) == { thee.atomIDs[ui][slot] : slot \in 1..thee.natoms[ui] }

\* atom i, other than atomID and of radius > 0, lies closer to the point than
\* its radius inflated by `radius`
Obstructs(i, center, radius, atomID) ==
  /\ i /= atomID
  /\ Valist_getAtom(alist, i).radius > 0
  /\ Dist2(Valist_getAtom(alist, i).position, center)
       < (Valist_getAtom(alist, i).radius + radius) * (Valist_getAtom(alist, i).radius + radius)

\* the brute-force test over the whole atom list, and the test over a bucket
BruteForceAccess(center, radius, atomID) ==
  IF \E i \in AtomIDs : Obstructs(i, center, radius, atomID) THEN 0 ELSE 1
BucketAccess(center, radius, atomID) ==
  IF \E i \in Bucket(PointCell(center)) : Obstructs(i, center, radius, atomID) THEN 0 ELSE 1

IsInflatedCall == call.op \in {"Vacc_ivdwAcc", "ivdwAccExclus"}
IsDiscreteCall ==
  call.op \in {"Vacc_vdwAcc", "Vacc_ivdwAcc", "ivdwAccExclus", "Vacc_molAcc", "Vacc_fastMolAcc"}

\* the distance, rounded down to a hundredth, between an atom's centre and the
\* box of cell number c on axis k
AxisGap(atom, c, k) ==
  LET x == GridDen * atom.position[k] - thee.grid_lower_corner[k]
      d == Dim(thee, k) - 1
      below == Floor(c * Spacing(thee, k) - x * d, d * GridDen)
      above == Floor(x * d - (c + 1) * Spacing(thee, k), d * GridDen)
  IN VMAX2(0, VMAX2(below, above))

CellCoord(ui, k) ==
  IF k = 1 THEN ui \div (thee.nz * thee.ny)
  ELSE IF k = 2 THEN (ui \div thee.nz) % thee.ny
  ELSE ui % thee.nz

\* some point of the cell's box lies inside the atom's sphere of radius
\* (atom radius + max_radius)
SphereMeetsCell(i, ui) ==
  LET atom == Valist_getAtom(alist, i)
      g(k) == AxisGap(atom, CellCoord(ui, k), k)
  IN g(1) * g(1) + g(2) * g(2) + g(3) * g(3)
       < (atom.radius + thee.max_radius) * (atom.radius + thee.max_radius)

\* on axis k, the cell's box meets the atom's bounding cube lengthened by one
\* spacing on the upper side
CubeMeetsCell(i, ui) ==
  \A k \in 1..3 :
    LET atom == Valist_getAtom(alist, i)
        x == GridDen * atom.position[k] - thee.grid_lower_corner[k]
        rtot == GridDen * (atom.radius + thee.max_radius)
        d == Dim(thee, k) - 1
        c == CellCoord(ui, k)
    IN /\ (c + 1) * Spacing(thee, k) > (x - rtot) * d
       /\ c * Spacing(thee, k) < (x + rtot) * d + Spacing(thee, k)

\* the point lies below the grid's lower corner or beyond its last cell on
\* some axis
OutsideGridBox(center) ==
  \E k \in 1..3 :
    LET x == GridDen * center[k] - thee.grid_lower_corner[k]
    IN x < 0 \/ x * (Dim(thee, k) - 1) >= Dim(thee, k) * Spacing(thee, k)

(***************************************************************************)
(* C1                                                                      *)
(***************************************************************************)
\* C1 as stated: for every point mapped to a grid cell and every probe radius
\* <= max_radius, the inflated test run on the cell's bucket returns what the
\* brute-force test over all atoms returns, and no obstructing atom is missing
\* from the bucket.
C1_AsStated ==
  (phase = "built" /\ IsInflatedCall /\ call.ret /= Aborted /\ OnGrid(call.center))
    => /\ call.ret = BruteForceAccess(call.center, call.radius, call.atomID)
       /\ \A i \in AtomIDs :
            Obstructs(i, call.center, call.radius, call.atomID)
              => i \in Bucket(PointCell(call.center))

\* C1 (amended): the same, for probe radii 0 <= radius <= max_radius.
C1_SingleBucketSuffices ==
  (phase = "built" /\ IsInflatedCall /\ call.ret /= Aborted /\ OnGrid(call.center)
     /\ call.radius >= 0)
    => /\ call.ret = BruteForceAccess(call.center, call.radius, call.atomID)
       /\ \A i \in AtomIDs :
            Obstructs(i, call.center, call.radius, call.atomID)
              => i \in Bucket(PointCell(call.center))

\* an inflated test with a positive probe found the point obstructed, from a
\* bucket that does not hold every atom
C1_Witness ==
  /\ phase = "built" /\ IsInflatedCall /\ OnGrid(call.center)
  /\ call.radius > 0 /\ call.ret = 0
  /\ \E i \in AtomIDs \ Bucket(PointCell(call.center)) : Valist_getAtom(alist, i).radius > 0

(***************************************************************************)
(* C2                                                                      *)
(***************************************************************************)
\* C2 as stated: after construction an atom is in a cell's bucket if and only
\* if its sphere of radius (atom radius + max_radius) meets the cell's box.
C2_AsStated ==
  (phase = "built" /\ call.op = "none")
    => \A i \in AtomIDs : \A ui \in Cells : (i \in Bucket(ui)) <=> SphereMeetsCell(i, ui)

\* C2 (amended): after construction every cell whose box the atom's inflated
\* sphere meets holds the atom, and a cell holds the atom only if its box
\* meets the sphere's bounding cube lengthened by one spacing on the upper side.
C2_BucketCoversSphere ==
  (phase = "built" /\ call.op = "none")
    => \A i \in AtomIDs : \A ui \in Cells :
         /\ SphereMeetsCell(i, ui) => i \in Bucket(ui)
         /\ i \in Bucket(ui) => CubeMeetsCell(i, ui)

\* a grid in which an atom's sphere meets one cell and the atom is absent from
\* another
C2_Witness ==
  /\ phase = "built" /\ call.op = "none"
  /\ \E i \in AtomIDs : \E ui \in Cells : \E uj \in Cells :
       SphereMeetsCell(i, ui) /\ i \in Bucket(ui) /\ i \notin Bucket(uj)

(***************************************************************************)
(* C3                                                                      *)
(***************************************************************************)
\* C3: a discrete predicate called on a point outside the grid box returns 1.
C3_OutsideIsAccessible ==
  (phase = "built" /\ IsDiscreteCall /\ call.ret /= Aborted /\ OutsideGridBox(call.center))
    => call.ret = 1

(***************************************************************************)
(* C4                                                                      *)
(***************************************************************************)
\* C4: the inflated test aborts, returning nothing, exactly when the probe
\* radius exceeds max_radius.
C4_PreconditionError ==
  (phase \in {"built", "aborted"} /\ IsInflatedCall)
    => /\ (call.ret = Aborted) <=> (call.radius > thee.max_radius)
       /\ (call.ret = Aborted) <=> (phase = "aborted")

\* an inflated test with too large a probe has aborted
C4_Witness ==
  /\ phase = "aborted" /\ IsInflatedCall
  /\ call.radius > thee.max_radius /\ call.ret = Aborted

(***************************************************************************)
(* C5                                                                      *)
(***************************************************************************)
\* C5: on a point of the grid the inflated test returns 0 exactly when the
\* point's bucket holds an atom other than the excluded one, of radius > 0,
\* at a squared distance strictly below (atom radius + probe radius)^2, and 1
\* otherwise.
C5_InflatedAccess ==
  (phase = "built" /\ IsInflatedCall /\ call.ret /= Aborted /\ OnGrid(call.center))
    => call.ret = BucketAccess(call.center, call.radius, call.atomID)

\* the excluded atom would obstruct the point, and another atom at the same
\* place still does
C5_Witness ==
  /\ phase = "built" /\ call.op = "ivdwAccExclus" /\ OnGrid(call.center)
  /\ call.radius >= 0
  /\ call.atomID \in Bucket(PointCell(call.center))
  /\ Obstructs(call.atomID, call.center, call.radius, -1)
  /\ \E i \in AtomIDs :
       /\ Valist_getAtom(alist, i).position = Valist_getAtom(alist, call.atomID).position
       /\ Obstructs(i, call.center, call.radius, call.atomID)
  /\ call.ret = 0

(***************************************************************************)
(* C6                                                                      *)
(***************************************************************************)
\* C6: on a point of the grid the hard-sphere test returns 0 exactly when the
\* point's bucket holds an atom at a squared distance strictly below its
\* squared radius, and 1 otherwise; an atom of radius 0 never obstructs.
C6_HardSphereAccess ==
  (phase = "built" /\ call.op = "Vacc_vdwAcc" /\ OnGrid(call.center))
    => call.ret =
         IF \E i \in Bucket(PointCell(call.center)) :
              Dist2(Valist_getAtom(alist, i).position, call.center)
                < Valist_getAtom(alist, i).radius * Valist_getAtom(alist, i).radius
         THEN 0 ELSE 1

\* the point is the centre of an atom of radius 0 and is accessible
C6_Witness ==
  /\ phase = "built" /\ call.op = "Vacc_vdwAcc" /\ OnGrid(call.center)
  /\ \E i \in Bucket(PointCell(call.center)) :
       /\ Valist_getAtom(alist, i).radius = 0
       /\ Valist_getAtom(alist, i).position = call.center
  /\ call.ret = 1

(***************************************************************************)
(* C7                                                                      *)
(***************************************************************************)
\* some quadrature sample of the sphere of radius `radius` around the point
\* passes the inflated test
SomeSampleAccessible(center, radius) ==
  \E ipt \in 0..(thee.nsphere - 1) :
    Vacc_ivdwAcc(SpherePoint(center, radius, ipt), radius) = 1

C8_AsStated ==
  (phase = "built" /\ call.op = "Vacc_ivdwAcc" /\ call.ret = 1)
    => \A r \in ProbeRadii :
         r < call.radius => Vacc_ivdwAcc(call.center, r) = 1

\* C8 (amended): a point the inflated test accepts with probe radius r is
\* accepted with every probe radius r' with 0 <= r' < r.
C8_Monotone ==
  (phase = "built" /\ call.op = "Vacc_ivdwAcc" /\ call.ret = 1)
    => \A r \in ProbeRadii :
         (0 <= r /\ r < call.radius) => Vacc_ivdwAcc(call.center, r) = 1

\* a point accepted with a positive probe radius and refused with a larger one
C8_Witness ==
  /\ phase = "built" /\ call.op = "Vacc_ivdwAcc" /\ call.ret = 1
  /\ call.radius > 0
  /\ \E r \in ProbeRadii : r > call.radius /\ Vacc_ivdwAcc(call.center, r) = 0

(***************************************************************************)
(* C9                                                                      *)
(***************************************************************************)
\* the per-atom factor as the formula gives it: a = atom radius + inflation
\* radius, w = window, d = distance to the atom centre
FormulaFactor(center, win, infrad, atomID) ==
  LET atom == Valist_getAtom(alist, atomID)
      a == atom.radius + infrad
      d == VSQRT(Dist2(atom.position, center))
  IN IF atom.radius = 0 THEN FOne
     ELSE IF d <= a - win THEN FZero
     ELSE IF d >= a + win THEN FOne
     ELSE SplineValue(d - a + win, win)

\* C9: for every atom of radius > 0 the per-atom factor is 0 when d <= a-w,
\* 1 when d >= a+w and 0.75*s^2/w^2 - 0.25*s^3/w^3 with s = d-a+w in between;
\* only an atom of radius exactly 0 contributes the factor 1 regardless.
C9_PerAtomFactor ==
  (phase = "built" /\ call.op = "Vacc_splineAccAtom")
    => call.ret = FormulaFactor(call.center, call.win, call.radius, call.atomID)

(***************************************************************************)
(* C10                                                                     *)
(***************************************************************************)
\* the product of the per-atom factors of the first k atoms of a bucket
RECURSIVE BucketProduct(_, _, _, _, _)
BucketProduct(center, win, infrad, ui, k) ==
  IF k = 0 THEN FOne
  ELSE FMul(BucketProduct(center, win, infrad, ui, k - 1),
            Vacc_splineAccAtom(center, win, infrad, thee.atomIDs[ui][k]))

\* the running product falls below VSMALL at some atom of the bucket
ShortCircuits(center, win, infrad, ui) ==
  \E k \in 1..thee.natoms[ui] : FLess(BucketProduct(center, win, infrad, ui, k), VSMALL)

\* C10: on a point of the grid Vacc_splineAcc returns the product of the
\* per-atom factors of the atoms of the point's bucket, each taken once, and
\* 0 when the running product fell below VSMALL.
C10_ProductOverBucket ==
  (phase = "built" /\ call.op = "Vacc_splineAcc" /\ OnGrid(call.center))
    => call.ret =
         IF ShortCircuits(call.center, call.win, call.radius, PointCell(call.center))
         THEN FZero
         ELSE BucketProduct(call.center, call.win, call.radius, PointCell(call.center),
                            thee.natoms[PointCell(call.center)])

(***************************************************************************)
(* C11                                                                     *)
(***************************************************************************)
\* the distance, in hundredths, from the point to the centre of atom atomID
AtomDistance(center, atomID) ==
  VSQRT(Dist2(Valist_getAtom(alist, atomID).position, center))

\* C11: Vacc_splineAcc returns a value in [0,1]; for one atom of radius > 0
\* and a window w > 0 the per-atom value is 0 at distance exactly a-w, 1 at
\* distance exactly a+w, and never decreases as the distance grows.
C11_SmoothstepShape ==
  /\ (phase = "built" /\ call.op = "Vacc_splineAcc")
       => (FLeq(FZero, call.ret) /\ FLeq(call.ret, FOne))
  /\ (phase = "built" /\ call.op = "Vacc_splineAccAtom" /\ call.win > 0
        /\ Valist_getAtom(alist, call.atomID).radius > 0)
       => LET a == Valist_getAtom(alist, call.atomID).radius + call.radius
              d == AtomDistance(call.center, call.atomID)
          IN /\ FLeq(FZero, call.ret) /\ FLeq(call.ret, FOne)
             /\ (d = a - call.win) => call.ret = FZero
             /\ (d = a + call.win) => call.ret = FOne
             /\ \A p \in Points :
                  AtomDistance(p, call.atomID) >= d
                    => FLeq(call.ret,
                            Vacc_splineAccAtom(p, call.win, call.radius, call.atomID))

(***************************************************************************)
(* C12                                                                     *)
(***************************************************************************)
\* C12: Vacc_splineAccGradAtom leaves the zero vector when the atom's radius
\* is 0 or d <= a-w or d >= a+w; inside the window, at a distance d > 0, it
\* leaves -(v'(d)/v(d)) * (point - atomCentre)/d with v the per-atom spline
\* value and v' = 1.5*s/w^2 - 0.75*s^2/w^3, s = d-a+w.
C12_GradientOfSpline ==
  (phase = "built" /\ call.op = "Vacc_splineAccGradAtom")
    => LET atom == Valist_getAtom(alist, call.atomID)
           a == atom.radius + call.radius
           w == call.win
           d == AtomDistance(call.center, call.atomID)
           s == d - a + w
       IN IF atom.radius = 0 \/ d <= a - w \/ d >= a + w
          THEN call.ret = GradZero
          ELSE d > 0 =>
                 \A k \in 1..3 :
                   LET delta == call.center[k] - atom.position[k]
                       mag == FMul(FDivF(SplineSlope(s, w), SplineValue(s, w)),
                                   FDiv(IF delta < 0 THEN -delta ELSE delta, d))
                   IN /\ call.ret[k].m = mag.m
                      /\ call.ret[k].m /= 0 =>
                           (call.ret[k].e = mag.e /\ call.ret[k].neg = (delta > 0))

\* a gradient taken inside the window of an atom of radius 1.0, not zero
C12_Witness ==
  /\ phase = "built" /\ call.op = "Vacc_splineAccGradAtom"
  /\ Valist_getAtom(alist, call.atomID).radius = 100
  /\ AtomDistance(call.center, call.atomID) > 0
  /\ call.ret /= GradZero

(***************************************************************************)
(* C13                                                                     *)
(***************************************************************************)
\* the quadrature samples around atom i that pass the inflated test with
\* atom i left out
AccessibleSamples(srad, i) ==
  { ipt \in 0..(thee.nsphere - 1) :
      ivdwAccExclus(SASAPoint(srad, i, ipt), srad, i) = 1 }

\* 4*pi*(atomRadius_i + probeRadius)^2, in squared hundredths
FullSphereArea(srad, i) ==
  (4 * VPI_Num * (Valist_getAtom(alist, i).radius + srad)
     * (Valist_getAtom(alist, i).radius + srad)) \div VPI_Den

RECURSIVE SumAtomSASA(_, _)
SumAtomSASA(radius, i) ==
  IF i >= Valist_getNumberAtoms(alist) THEN 0
  ELSE AddArea(Vacc_atomSASA(radius, i), SumAtomSASA(radius, i + 1))

\* C14: Vacc_totalSASA returns the sum over all atoms of Vacc_atomSASA for
\* the probe radius, and when it returns thee->area[i] is Vacc_atomSASA of
\* atom i for that probe radius.
C14_TotalIsSum ==
  (phase = "built" /\ call.op = "Vacc_totalSASA")
    => /\ call.ret = SumAtomSASA(call.radius, 0)
       /\ \A i \in AtomIDs : thee.area[i] = Vacc_atomSASA(call.radius, i)

\* a total over two atoms with different areas, both cached
C14_Witness ==
  /\ phase = "built" /\ call.op = "Vacc_totalSASA" /\ call.radius > 0
  /\ Valist_getNumberAtoms(alist) = 2
  /\ thee.area[0] > 0 /\ thee.area[1] > 0 /\ thee.area[0] /= thee.area[1]
  /\ call.ret = thee.area[0] + thee.area[1]

(***************************************************************************)
(* C15                                                                     *)
(***************************************************************************)
\* C15: for two atoms with the same position and the same radius
\* Vacc_totalSASA returns what Vacc_atomSASA returns for one such atom
\* alone, the full sphere area.
C15_NoDoubleCount ==
  (phase = "built" /\ call.op = "Vacc_totalSASA" /\ thee.nsphere > 0
     /\ Valist_getNumberAtoms(alist) = 2
     /\ Valist_getAtom(alist, 0) = Valist_getAtom(alist, 1))
    => call.ret = FullSphereArea(call.radius, 0)

(***************************************************************************)
(* C16                                                                     *)
(***************************************************************************)
\* the arrays the constructor allocates after its check of the dimensions
AllocatedArrays == {"natoms", "atomIDs", "atomFlags", "area"}

\* C16: a constructor, Vacc_ctor2 or Vacc_ctor2Focus, returns its failure
\* result exactly when one of nx, ny, nz is below 3, and then none of the
\* arrays natoms, atomIDs, atomFlags, area has been allocated.
C16_ConfigError ==
  [][ (phase = "init" /\ phase' /= "init")
        => /\ (phase' = "ctor_failed") <=> (thee'.nx < 3 \/ thee'.ny < 3 \/ thee'.nz < 3)
           /\ (phase' = "ctor_failed") => (DOMAIN thee' \cap AllocatedArrays = {})
           /\ (phase' = "built") => (AllocatedArrays \subseteq DOMAIN thee') ]_vars

\* a constructor has failed on a dimension of 2
C16_Witness ==
  /\ phase = "ctor_failed"
  /\ thee.nx >= 3 /\ thee.ny = 2 /\ thee.nz >= 3
  /\ DOMAIN thee \cap AllocatedArrays = {}

(***************************************************************************)
(* C17                                                                     *)
(***************************************************************************)
\* the fields of the engine a query of the given kind may change
MayChange(op) ==
  CASE op = "Vacc_splineAcc" -> {"atomFlags"}
    [] op = "Vacc_totalSASA" -> {"area"}
    [] OTHER -> {}

\* C17: a query changes nothing of the engine but, for Vacc_splineAcc, the
\* seen flags and, for Vacc_totalSASA, the cached areas; in particular the
\* four discrete predicates, Vacc_splineAccAtom and Vacc_atomSASA change
\* nothing, and no query stores outside the arrays of the engine.
C17_QueriesKeepTheGrid ==
  [][ (call.op = "none" /\ call'.op /= "none")
        => /\ DOMAIN thee' = DOMAIN thee
           /\ \A f \in DOMAIN thee \ MayChange(call'.op) : thee'[f] = thee[f]
           /\ alist' = alist
           /\ ub' = ub ]_vars

(***************************************************************************)
(* C18                                                                     *)
(***************************************************************************)
\* what the call recorded in rec returns when no other call runs during it
AloneResult(rec) ==
  IF rec.op = "Vacc_splineAcc"
  THEN Vacc_splineAcc(rec.center, rec.win, rec.infrad,
                      [id \in FlagsOutside(rec.center) |-> 0]).value
  ELSE Vacc_totalSASA(rec.radius).total

\* rec is a call of the function op that has returned something else than
\* it returns when run alone
Diverged(rec, op) ==
  /\ rec.op = op
  /\ rec.pc = "done"
  /\ rec.ret /= AloneResult(rec)

\* C18: Vacc_splineAcc and Vacc_totalSASA are unsafe only under concurrent
\* invocation: a call returns a result different from the one it returns
\* when run alone only if another thread was inside the same function during
\* the call.  That such interleavings exist, for both functions, is the
\* witness.
C18_DivergesOnlyWhenShared ==
  \A op \in { "Vacc_splineAcc", "Vacc_totalSASA" } :
    /\ \A t \in Threads : Diverged(thread[t], op) => ~thread[t].alone
    /\ Diverged(call, op) => ~call.alone

\* a call of Vacc_splineAcc has returned a value that is not its value alone,
\* and so has a call of Vacc_totalSASA
C18_Witness ==
  /\ phase = "built"
  /\ Diverged(call, "Vacc_splineAcc")
  /\ \E t \in Threads : Diverged(thread[t], "Vacc_totalSASA")

(***************************************************************************)
(* C19                                                                     *)
(***************************************************************************)
\* the sum of nphi over the rings itheta, ..., ntheta - 1
RECURSIVE RingSum(_, _)
RingSum(ntheta, itheta) ==
  IF itheta >= ntheta THEN 0
  ELSE SphereNPhi(ntheta, itheta) + RingSum(ntheta, itheta + 1)

\* C19: Vacc_sphere depends only on the number of points requested: every
\* call returns the point sequence and the count fixed by the request, the
\* count reported, the number of points written and the number allocated all
\* equal the sum of nphi over the rings, the pole ring adds no point, and the
\* fill pass never writes past the points allocated.
C19_SphereCount ==
  /\ call.op = "Vacc_sphere" =>
       /\ ~ub
       /\ call.pc = "fill" => call.nactual <= call.allocated
       /\ call.ntheta > 0 => SphereNPhi(call.ntheta, 0) = 0
       /\ call.pc = "done" =>
            /\ call.npts = RingSum(SphereNTheta(call.request), 0)
            /\ call.npts = call.allocated
            /\ call.npts = Len(call.points)
            /\ call.points = Vacc_sphere(call.request)

\* a call on several rings has returned a count that is not the one requested
C19_Witness ==
  /\ call.op = "Vacc_sphere"
  /\ call.pc = "done"
  /\ call.ntheta >= 3
  /\ call.npts > 0
  /\ call.npts /= call.request
  /\ Len(call.points) = call.npts

(***************************************************************************)
(* C20                                                                     *)
(***************************************************************************)
\* the indices of atomFlags that Vacc_splineAcc reads and writes at center
FlagIndices(center) ==
  IF ~OnGrid(center) THEN {}
  ELSE { thee.atomIDs[PointCell(center)][k] : k \in 1..thee.natoms[PointCell(center)] }

\* C20: every index of atomFlags that a call of Vacc_splineAcc reads or
\* writes lies inside the array, whatever the numbers of atoms and of cells.
C20_FlagsInsideArray ==
  (phase = "built" /\ call.op = "Vacc_splineAcc")
    => /\ FlagIndices(call.center) \subseteq DOMAIN thee.atomFlags
       /\ ~ub

(***************************************************************************)
(* C21                                                                     *)
(***************************************************************************)
\* C21: in a constructed object, for every cell, the fill pass has written
\* exactly the slots the count pass counted and the bucket was allocated
\* with: no write outside a bucket, no slot left unwritten, natoms[ui] equal
\* to that size, and the atom indices of a bucket strictly ascending.
C21_TwoPassConsistency ==
  (phase = "built" /\ call.op = "none") =>
    /\ ~ub
    /\ \A ui \in Cells :
         /\ thee.natoms[ui] = Len(thee.atomIDs[ui])
         /\ thee.natoms[ui] = CountPass(thee, alist, ui)
         /\ \A slot \in 1..Len(thee.atomIDs[ui]) :
              thee.atomIDs[ui][slot] \in AtomIDs
         /\ \A s1, s2 \in 1..Len(thee.atomIDs[ui]) :
              s1 < s2 => thee.atomIDs[ui][s1] < thee.atomIDs[ui][s2]

\* a constructed object with a bucket of two atoms and an empty bucket
C21_Witness ==
  /\ phase = "built"
  /\ call.op = "none"
  /\ \E ui \in Cells : thee.natoms[ui] = 2 /\ Len(thee.atomIDs[ui]) = 2
  /\ \E ui \in Cells : thee.natoms[ui] = 0

(***************************************************************************)
(* C22                                                                     *)
(***************************************************************************)
\* the grid Vacc_ctor2 sets up on the atom list for the given parameters
AutoGrid(max_radius, dims) ==
  GridSetup(alist, max_radius, dims, 2, AtomExtent(alist))

\* the object was built by Vacc_ctor2, on the bounding box of the atoms
IsAutoBuilt ==
  /\ phase = "built"
  /\ LET g == AutoGrid(thee.max_radius, <<thee.nx, thee.ny, thee.nz>>)
     IN /\ thee.grid_lower_corner = g.grid_lower_corner
        /\ thee.hx = g.hx /\ thee.hy = g.hy /\ thee.hzed = g.hzed

\* the range of cells of an atom on axis k before clamping
UnclampedSpan(t, atom, k) ==
  LET x == GridDen * atom.position[k] - t.grid_lower_corner[k]
      rtot == GridDen * (atom.radius + t.max_radius)
  IN [min |-> Floor((x - rtot) * (Dim(t, k) - 1), Spacing(t, k)),
      max |-> Ceil((x + rtot) * (Dim(t, k) - 1), Spacing(t, k))]

\* C22: on a non-empty atom list with rmax + max_radius > 0, the grid of
\* Vacc_ctor2 has a strictly positive spacing on every axis, and for every
\* atom the range of cells of its sphere of radius atom radius + max_radius
\* lies in [0, dim - 1] on every axis before clamping.
C22_GridCoversAtoms ==
  /\ (phase = "init" /\ Valist_getNumberAtoms(alist) > 0) =>
       \A max_radius \in MaxRadiusChoices, dims \in DimChoices :
         (FindRmax(alist, 0, -100) + max_radius > 0) =>
           \A k \in 1..3 : Spacing(AutoGrid(max_radius, dims), k) > 0
  /\ (IsAutoBuilt /\ call.op = "none"
        /\ FindRmax(alist, 0, -100) + thee.max_radius > 0) =>
       \A i \in AtomIDs, k \in 1..3 :
         /\ Spacing(thee, k) > 0
         /\ UnclampedSpan(thee, Valist_getAtom(alist, i), k).min >= 0
         /\ UnclampedSpan(thee, Valist_getAtom(alist, i), k).max <= Dim(thee, k) - 1
         /\ AtomSpan(thee, Valist_getAtom(alist, i), k)
              = UnclampedSpan(thee, Valist_getAtom(alist, i), k)

\* Vacc_ctor2 has built a grid on two atoms of different radii, with a
\* positive max_radius
C22_Witness ==
  /\ IsAutoBuilt
  /\ call.op = "none"
  /\ thee.max_radius > 0
  /\ Valist_getNumberAtoms(alist) = 2
  /\ Valist_getAtom(alist, 0).radius /= Valist_getAtom(alist, 1).radius

(***************************************************************************)
(* C23                                                                     *)
(***************************************************************************)
\* C23: Vacc_dtor on a constructed object frees exactly the blocks the
\* construction allocated, each with the number of elements it was allocated
\* with, leaves the atom list as it is and the handle null; Vacc_dtor on the
\* null handle frees nothing and changes nothing.
C23_DtorFreesWhatCtorAllocated ==
  [][ (call'.op = "Vacc_dtor") =>
        /\ alist' = alist
        /\ thee' = NoVacc
        /\ phase' = "destroyed"
        /\ (phase = "built") => call'.freed = Allocations(thee)
        /\ (phase = "destroyed") => (call'.freed = {} /\ thee' = thee) ]_vars

\* an object has been destroyed and Vacc_dtor has been called again on the
\* null handle
C23_Witness ==
  /\ phase = "destroyed"
  /\ call.op = "Vacc_dtor"
  /\ call.freed = {}
  /\ thee = NoVacc

(***************************************************************************)
(* C24                                                                     *)
(***************************************************************************)
\* C24: in a call of Vacc_splineAccGradAtom with w > 0 on an atom of radius
\* > 0 at a point with a - w < d < a + w, the assertion mychi > 0.0 holds
\* and the distance d the gradient is divided by is not zero, so that no
\* component of the gradient is 0.0/0.0.
C24_GradientWellDefined ==
  (call.op = "Vacc_splineAccGradAtom" /\ call.win > 0
     /\ Valist_getAtom(alist, call.atomID).radius > 0)
    => LET a == Valist_getAtom(alist, call.atomID).radius + call.radius
           d == AtomDistance(call.center, call.atomID)
       IN (a - call.win < d /\ d < a + call.win)
            => /\ ~GradAsserts(call.center, call.win, call.radius, call.atomID)
               /\ phase = "built"
               /\ d /= 0
               /\ \A k \in 1..3 : call.ret[k] /= GNaN

(***************************************************************************)
(* C25                                                                     *)
(***************************************************************************)
\* C25: for a probe radius r with 0 <= r <= max_radius and any point,
\* Vacc_ivdwAcc(point, r) <= Vacc_molAcc(point, r) <= Vacc_vdwAcc(point):
\* the value Vacc_molAcc returns lies between the other two.
C25_PredicateOrdering ==
  (phase = "built" /\ call.op = "Vacc_molAcc"
     /\ 0 <= call.radius /\ call.radius <= thee.max_radius)
    => /\ call.ret \in {0, 1}
       /\ Vacc_ivdwAcc(call.center, call.radius) <= call.ret
       /\ call.ret <= Vacc_vdwAcc(call.center)

\* Vacc_molAcc has returned 1 at a point that lies inside an inflated atom
\* and outside every atom
C25_Witness ==
  /\ phase = "built"
  /\ call.op = "Vacc_molAcc"
  /\ 0 < call.radius /\ call.radius <= thee.max_radius
  /\ call.ret = 1
  /\ Vacc_ivdwAcc(call.center, call.radius) = 0
  /\ Vacc_vdwAcc(call.center) = 1

(***************************************************************************)
(* C26                                                                     *)
(***************************************************************************)
\* C26: a call of Vacc_splineAcc stops in its assertion, returning nothing,
\* exactly when win + infrad exceeds the max_radius of the object, whether
\* the point is on the grid or not; otherwise it returns a value.
C26_SplinePrecondition ==
  (call.op = "Vacc_splineAcc")
    => /\ (phase = "aborted") <=> (thee.max_radius < call.win + call.radius)
       /\ phase \in {"aborted", "built"}

\* a call at a point outside the grid has stopped in the assertion
C26_Witness ==
  /\ call.op = "Vacc_splineAcc"
  /\ phase = "aborted"
  /\ ~OnGrid(call.center)
  /\ thee.max_radius < call.win + call.radius

\* the counters of the sections of the input
Counters(n) == <<n.nmol, n.ndiel, n.nkappa, n.ncharge, n.nprint, n.ncalc>>

\* C27: an input is parsed at most once.  The parsed flag becomes 1 only in
\* the step in which NOsh_parse returns 1, which it does when the tokens
\* are exhausted or QUIT is read, and a return of 1 sets the flag; while
\* the flag is 1 the only thing a call of NOsh_parse does is to return 0,
\* and nmol, ndiel, nkappa, ncharge, nprint and ncalc keep their values;
\* when a section parser returns 0, NOsh_parse returns 0 and the flag
\* stays 0.
C27_ParsedAtMostOnce ==
  [][ /\ (nosh.parsed = 0 /\ nosh'.parsed = 1)
           => /\ parse'.pc = "done"
              /\ parse'.ret = 1
              /\ parse'.tok \in {EOF, "quit"}
      /\ (parse.pc = "top" /\ parse'.pc = "done" /\ parse'.ret = 1)
           => nosh'.parsed = 1
      /\ (nosh.parsed = 1 /\ nosh'.parsed = 1)
           => /\ parse' # parse => (parse'.pc = "done" /\ parse'.ret = 0)
              /\ Counters(nosh') = Counters(nosh)
      /\ (parse'.last # parse.last /\ parse'.last.section # "none"
            /\ parse'.last.rc = 0)
           => /\ parse'.pc = "done"
              /\ parse'.ret = 0
              /\ nosh'.parsed = 0
    ]_vars

\* C27 witness: an input with a molecule has been parsed, and a later call
\* of NOsh_parse on the same object has returned 0
C27_Witness ==
  /\ nosh.parsed = 1
  /\ nosh.nmol > 0
  /\ parse.pc = "done"
  /\ parse.ret = 0

\* the tokens after PRINT are: energy, ID, (op, ID)*, end, with fewer than
\* NOSH_MAXPOP operators
IsPrintStatement(toks) ==
  LET n == Len(toks)
  IN  /\ n >= 3
      /\ n % 2 = 1
      /\ toks[1] = "energy"
      /\ toks[n] = "end"
      /\ \A i \in 2..(n - 1) : IF i % 2 = 0 THEN toks[i] = "1"
                                           ELSE toks[i] \in {"+", "-"}
      /\ (n - 3) \div 2 < NOSH_MAXPOP
NumIDs(toks) == Cardinality({ i \in 1..Len(toks) : toks[i] = "1" })

\* C28: NOsh_parsePRINT returns 1 exactly when the tokens it read are
\* energy, ID, (op, ID)*, end with fewer than NOSH_MAXPOP operators and
\* nprint was below NOSH_MAXPRINT; then nprint has grown by 1 and printnarg
\* of the new entry is the number of IDs; any other sequence returns 0 with
\* nprint unchanged; nothing is stored in printcalc or printop at an index
\* of NOSH_MAXPOP or more.
C28_PrintGrammar ==
  LET l == parse.last
  IN  (l.section = "print")
        => /\ (l.rc = 1) <=> /\ IsPrintStatement(l.toks)
                             /\ l.before < NOSH_MAXPRINT
           /\ (l.rc = 1) => /\ l.nprint = l.before + 1
                            /\ l.narg = NumIDs(l.toks)
           /\ (l.rc = 0) => l.nprint = l.before
           /\ nosh.outside \cap {"printcalc", "printop"} = {}

\* C28 witness: a PRINT statement with an operator has been accepted
C28_Witness ==
  /\ parse.last.section = "print"
  /\ parse.last.rc = 1
  /\ parse.last.narg = 2
  /\ nosh.nprint = 1

\* C29: after NOsh_ctor2, before any input is parsed, every section
\* counter is zero, nelec included, and every store into elec2calc is at
\* an index nelec-1 inside [0, NOSH_MAXCALC).
C29_ElecCounterFromZero ==
  /\ (nosh.made /\ parse.pc = "idle")
       => /\ Counters(nosh) = <<0, 0, 0, 0, 0, 0>>
          /\ nosh.nelec = 0
  /\ "elec2calc" \notin nosh.outside
  /\ DOMAIN nosh.elec2calc \subseteq 0..(NOSH_MAXCALC - 1)

\* C30: the counters of the READ entries stay within the capacity of the
\* tables they index, and no entry is stored past the end of a table.
C30_ReadWithinTables ==
  /\ nosh.nmol <= NOSH_MAXMOL
  /\ nosh.ndiel <= NOSH_MAXMOL
  /\ nosh.nkappa <= NOSH_MAXMOL
  /\ nosh.ncharge <= NOSH_MAXMOL
  /\ nosh.outside \cap {"molpath", "dielpath", "kappapath", "chargepath"} = {}

====
